---------------------------- MODULE Spec2Model ----------------------------
(***************************************************************************)
(* A model of the vox version-control engine: the object store, the        *)
(* staging index, refs/HEAD, commit and checkout.                          *)
(*                                                                         *)
(* Bytes are modelled as sequences of tokens (strings).  A token stands    *)
(* for a run of bytes that the code never splits: a type name, a decimal   *)
(* length, a NUL byte, a hash, a line of text.  SHA-1 is modelled as an    *)
(* injective function of its input (no collisions): the printed form of    *)
(* the token sequence that was fed to the hasher.                          *)
(***************************************************************************)
EXTENDS Integers, Sequences, FiniteSets, TLC

VARIABLES
    objects,    \* .vox/objects: hash |-> bytes of the object file
    voxDir,     \* TRUE when the .vox directory exists
    indexFile,  \* .vox/index: the bytes of the index file, or NoFile
    head,       \* .vox/HEAD: its content (tokens), or NoFile
    heads,      \* .vox/refs/heads: branch name |-> content of the ref file
    wd,         \* working directory: path |-> [data, mtime]
    now,        \* the filesystem clock, in seconds
    last,       \* what the last operation was given and what it returned
    ix,         \* the in-memory Index of the index round trip
    used        \* how many edits and commands have run (bounds the model)

vars == <<objects, voxDir, indexFile, head, heads, wd, now, last, ix, used>>

-----------------------------------------------------------------------------
(* Bytes, hashing, compression *)

NUL == "\\0"
LF == "\\n"
NoFile == <<"<no file>">>
EmptyMap == [x \in {} |-> x]

\* Sha1::new(); hasher.update(bytes); format!("{:x}", hasher.finalize())
Sha1(bytes) == ToString(bytes)

\* ZlibEncoder::new(..).write_all(bytes).finish()
ZlibCompress(bytes) == <<"zlib">> \o bytes

IsZlib(file) == Len(file) >= 1 /\ file[1] = "zlib"

\* ZlibDecoder::new(..).read_to_end(..)
ZlibDecompress(file) == Tail(file)

\* format!("{} {}\0", type, len)
Header(type, len) == <<type, ToString(len), NUL>>

\* data.iter().position(|&b| b == 0)
NullPos(data) ==
    IF \E i \in 1..Len(data) : data[i] = NUL
    THEN CHOOSE i \in 1..Len(data) :
            data[i] = NUL /\ \A j \in 1..(i - 1) : data[j] # NUL
    ELSE 0

AfterNull(data) == SubSeq(data, NullPos(data) + 1, Len(data))


-----------------------------------------------------------------------------
(* Object model: Blob, Commit, Tag, Tree *)

OBJ_TYPE_BLOB == "blob"
OBJ_TYPE_COMMIT == "commit"
OBJ_TYPE_TAG == "tag"
OBJ_TYPE_TREE == "tree"
PERM_FILE == "100644"
PERM_DIR == "40000"

\* fs::write(path, bytes): creates the file or replaces its content
FsWrite(dir, name, bytes) == [k \in (DOMAIN dir) \cup {name} |->
                                IF k = name THEN bytes ELSE dir[k]]

\* Blob::serialize
BlobSerialize(data) == data

\* Blob::hash
BlobHash(data) == Sha1(BlobSerialize(data))

\* the hash Blob::save computes for the object path
BlobSaveHash(data) == Sha1(data)

\* the bytes Blob::save writes
BlobSaveBytes(data) == ZlibCompress(Header(OBJ_TYPE_BLOB, Len(data)) \o data)

\* Blob::save: the store after the write
BlobSave(store, data) == FsWrite(store, BlobSaveHash(data), BlobSaveBytes(data))

\* Blob::load: the content after the first NUL, whatever the header says
BlobLoad(store, hash) ==
    IF hash \notin DOMAIN store \/ ~IsZlib(store[hash])
    THEN [ok |-> FALSE, data |-> <<>>]
    ELSE LET data == ZlibDecompress(store[hash]) IN
         IF NullPos(data) = 0 THEN [ok |-> FALSE, data |-> <<>>]
         ELSE [ok |-> TRUE, data |-> AfterNull(data)]

\* Commit::serialize; a commit is [tree, parent, author, timestamp, message],
\* parent being <<>> (None) or <<hash>> (Some)
CommitSerialize(c) ==
    <<"tree", c.tree, LF>>
    \o (IF c.parent # <<>> THEN <<"parent", c.parent[1], LF>> ELSE <<>>)
    \o <<"author", c.author, ToString(c.timestamp), LF>>
    \o <<LF>>
    \o <<c.message, LF>>

\* Commit::hash
CommitHash(c) == Sha1(CommitSerialize(c))

\* the bytes Commit::save writes
CommitSaveBytes(c) ==
    ZlibCompress(Header(OBJ_TYPE_COMMIT, Len(CommitSerialize(c))) \o CommitSerialize(c))

\* Commit::save: the store after the write
CommitSave(store, c) == FsWrite(store, CommitHash(c), CommitSaveBytes(c))

\* Tag::serialize; a tag is [object, object_type, tag, tagger, message],
\* tagger being <<name, email, timestamp>>
TagSerialize(t) ==
    <<"object", t.object, LF, "type", t.object_type, LF, "tag", t.tag, LF>>
    \o <<"tagger", t.tagger[1], t.tagger[2], ToString(t.tagger[3]), "+0000", LF>>
    \o <<LF>>
    \o <<t.message>>

\* Tag::hash
TagHash(t) == Sha1(TagSerialize(t))

\* the bytes Tag::save writes
TagSaveBytes(t) ==
    ZlibCompress(Header(OBJ_TYPE_TAG, Len(TagSerialize(t))) \o TagSerialize(t))

\* Tag::save: the store after the write
TagSave(store, t) == FsWrite(store, TagHash(t), TagSaveBytes(t))

RECURSIVE TreeSerialize(_)
\* Tree::serialize; a tree is a sequence of [mode, object_type, object_hash, name]
TreeSerialize(entries) ==
    IF entries = <<>> THEN <<>>
    ELSE <<entries[1].mode, entries[1].name, NUL, entries[1].object_hash>>
         \o TreeSerialize(Tail(entries))

\* Tree::hash
TreeHash(entries) == Sha1(TreeSerialize(entries))

\* header || payload, as store_tree assembles it
TreeFullContent(entries) ==
    Header(OBJ_TYPE_TREE, Len(TreeSerialize(entries))) \o TreeSerialize(entries)

\* the hash store_tree computes and returns
StoreTreeHash(entries) == Sha1(TreeFullContent(entries))

\* store_tree: the store after the call; the file is written only when absent
StoreTree(store, entries) ==
    IF StoreTreeHash(entries) \in DOMAIN store THEN store
    ELSE FsWrite(store, StoreTreeHash(entries), ZlibCompress(TreeFullContent(entries)))

-----------------------------------------------------------------------------
(* The object store on its own: any sequence of saves *)

MaxSaves == 3
MaxStamp == 2

TreeEntry(mode, type, hash, name) ==
    [mode |-> mode, object_type |-> type, object_hash |-> hash, name |-> name]

BaseData == {<<"x">>, <<"y", "y">>}

StoreTrees ==
    { <<>>,
      <<TreeEntry(PERM_FILE, OBJ_TYPE_BLOB, BlobSaveHash(<<"x">>), "a")>>,
      <<TreeEntry(PERM_FILE, OBJ_TYPE_BLOB, BlobSaveHash(<<"x">>), "a"),
        TreeEntry(PERM_FILE, OBJ_TYPE_BLOB, BlobSaveHash(<<"y", "y">>), "b")>> }

StoreCommits ==
    { [tree |-> StoreTreeHash(t), parent |-> <<>>, author |-> "Me",
       timestamp |-> ts, message |-> "m"] : t \in StoreTrees, ts \in 1..MaxStamp }

StoreTags ==
    { [object |-> CommitHash(c), object_type |-> OBJ_TYPE_COMMIT, tag |-> "v1",
       tagger |-> <<"Me", "<me@x>", c.timestamp>>, message |-> "t"] : c \in StoreCommits }

\* what a file handed to Blob::save may hold: any bytes, among them the text
\* of a commit or of a tag and the raw content of a tree object
StoreBlobData ==
    BaseData \cup { CommitSerialize(c) : c \in StoreCommits }
             \cup { TagSerialize(t) : t \in StoreTags }
             \cup { TreeFullContent(t) : t \in StoreTrees }

NoSave == [op |-> "none", n |-> 0, payload |-> <<>>, ret |-> "", hash |-> ""]

InitStore ==
    /\ objects = EmptyMap
    /\ voxDir = TRUE
    /\ indexFile = NoFile
    /\ head = NoFile
    /\ heads = EmptyMap
    /\ wd = EmptyMap
    /\ now = 0
    /\ last = NoSave
    /\ ix = <<>>
    /\ used = 0

SaveBlob(data) ==
    /\ last.n < MaxSaves
    /\ objects' = BlobSave(objects, data)
    /\ last' = [op |-> OBJ_TYPE_BLOB, n |-> last.n + 1, payload |-> BlobSerialize(data),
                ret |-> BlobSaveHash(data), hash |-> BlobHash(data)]
    /\ UNCHANGED <<voxDir, indexFile, head, heads, wd, now, ix, used>>

SaveCommit(c) ==
    /\ last.n < MaxSaves
    /\ objects' = CommitSave(objects, c)
    /\ last' = [op |-> OBJ_TYPE_COMMIT, n |-> last.n + 1, payload |-> CommitSerialize(c),
                ret |-> CommitHash(c), hash |-> CommitHash(c)]
    /\ UNCHANGED <<voxDir, indexFile, head, heads, wd, now, ix, used>>

SaveTag(t) ==
    /\ last.n < MaxSaves
    /\ objects' = TagSave(objects, t)
    /\ last' = [op |-> OBJ_TYPE_TAG, n |-> last.n + 1, payload |-> TagSerialize(t),
                ret |-> TagHash(t), hash |-> TagHash(t)]
    /\ UNCHANGED <<voxDir, indexFile, head, heads, wd, now, ix, used>>

SaveTree(t) ==
    /\ last.n < MaxSaves
    /\ objects' = StoreTree(objects, t)
    /\ last' = [op |-> OBJ_TYPE_TREE, n |-> last.n + 1, payload |-> TreeSerialize(t),
                ret |-> StoreTreeHash(t), hash |-> TreeHash(t)]
    /\ UNCHANGED <<voxDir, indexFile, head, heads, wd, now, ix, used>>

NextStore ==
    \/ \E data \in StoreBlobData : SaveBlob(data)
    \/ \E c \in StoreCommits : SaveCommit(c)
    \/ \E t \in StoreTags : SaveTag(t)
    \/ \E t \in StoreTrees : SaveTree(t)

SpecStore == InitStore /\ [][NextStore]_vars

\* C2: the hash that hash() and save() return, and that names the storage
\* path, is SHA1 of "<type> <payload-length>\0" || payload, the very bytes
\* that are compressed and written to disk, for every kind of object.
C2_ContentAddressing ==
    last.op \in {OBJ_TYPE_BLOB, OBJ_TYPE_COMMIT, OBJ_TYPE_TAG, OBJ_TYPE_TREE} =>
        LET full == Header(last.op, Len(last.payload)) \o last.payload IN
        /\ last.ret = Sha1(full)
        /\ last.hash = Sha1(full)
        /\ last.ret \in DOMAIN objects
        /\ ZlibDecompress(objects[last.ret]) = full

\* C3: the address a write returns equals the address hash() computes for
\* the object, whatever the store already holds; in particular Tree::hash()
\* equals what store_tree returns for the same tree.
C3_AddressStability ==
    last.op \in {OBJ_TYPE_BLOB, OBJ_TYPE_COMMIT, OBJ_TYPE_TAG, OBJ_TYPE_TREE} =>
        last.ret = last.hash

\* C4: objects are create-once: the bytes of an object file that exists never
\* change, whatever is saved afterwards (the same object again, or any other
\* object of any kind).
C4_CreateOnce ==
    [][\A h \in DOMAIN objects : h \in DOMAIN objects' /\ objects'[h] = objects[h]]_vars

-----------------------------------------------------------------------------
(* The index file.                                                         *)
(* The file is a sequence of cells.  Every integer field is written as its *)
(* big-endian bytes, one cell per byte.  The 20 raw bytes of the hash are   *)
(* one cell; the path is one cell per component and per "/" separator,      *)
(* followed by the NUL terminator.  A path is a sequence of components.     *)

INDEX_SIGNATURE == <<"D", "I", "R", "C">>
INDEX_VERSION == 2

RECURSIVE ToBeBytes(_, _)
\* v.to_be_bytes() of a w-byte unsigned integer
ToBeBytes(v, w) ==
    IF w = 0 THEN <<>> ELSE ToBeBytes(v \div 256, w - 1) \o <<v % 256>>

RECURSIVE FromBeBytes(_)
\* uN::from_be_bytes(bytes)
FromBeBytes(bytes) ==
    IF bytes = <<>> THEN 0
    ELSE FromBeBytes(SubSeq(bytes, 1, Len(bytes) - 1)) * 256 + bytes[Len(bytes)]

RECURSIVE PathToStr(_)
\* entry.path.to_str(): the components joined by "/"
PathToStr(path) ==
    IF Len(path) <= 1 THEN path
    ELSE <<path[1], "/">> \o PathToStr(Tail(path))

RECURSIVE PathFromStr(_)
\* PathBuf::from(String): the components between the "/" separators
PathFromStr(cells) ==
    IF cells = <<>> THEN <<>>
    ELSE IF cells[1] = "/" THEN PathFromStr(Tail(cells))
    ELSE <<cells[1]>> \o PathFromStr(Tail(cells))

\* the file names of the model, in byte order
NameOrder == <<".", ".h", "a", "b", "d", "t", "target">>

RECURSIVE PathLess(_, _)
\* a.path.cmp(&b.path) = Less: component by component
PathLess(a, b) ==
    IF a = <<>> THEN b # <<>>
    ELSE IF b = <<>> THEN FALSE
    ELSE IF a[1] = b[1] THEN PathLess(Tail(a), Tail(b))
    ELSE (CHOOSE i \in 1..Len(NameOrder) : NameOrder[i] = a[1])
            < (CHOOSE i \in 1..Len(NameOrder) : NameOrder[i] = b[1])

\* entries.sort_by(|a, b| a.path.cmp(&b.path)) over the values of the map
SortedPaths(entries) ==
    LET n == Cardinality(DOMAIN entries) IN
    CHOOSE seq \in [1..n -> DOMAIN entries] :
        /\ \A i, j \in 1..n : i < j => PathLess(seq[i], seq[j])

\* the bytes write_to_file writes for one entry
EntryBytes(e) ==
    ToBeBytes(e.mtime, 8) \o ToBeBytes(e.dev, 4) \o ToBeBytes(e.ino, 4)
    \o ToBeBytes(e.uid, 4) \o ToBeBytes(e.gid, 4) \o ToBeBytes(e.mode, 4)
    \o ToBeBytes(e.size, 4) \o <<e.hash>> \o ToBeBytes(e.flags, 2)
    \o PathToStr(e.path) \o <<NUL>>

RECURSIVE EntriesBytes(_, _)
EntriesBytes(entries, order) ==
    IF order = <<>> THEN <<>>
    ELSE EntryBytes(entries[order[1]]) \o EntriesBytes(entries, Tail(order))

\* Index::write_to_file: the content of the file it creates
WriteToFile(entries) ==
    INDEX_SIGNATURE \o ToBeBytes(INDEX_VERSION, 4)
    \o ToBeBytes(Cardinality(DOMAIN entries), 4)
    \o EntriesBytes(entries, SortedPaths(entries))

\* the position of the first NUL cell at or after pos, 0 when there is none
PathEnd(bytes, pos) ==
    IF \E i \in pos..Len(bytes) : bytes[i] = NUL
    THEN CHOOSE i \in pos..Len(bytes) :
            bytes[i] = NUL /\ \A j \in pos..(i - 1) : bytes[j] # NUL
    ELSE 0

\* the cells of one entry before its path: 8 + 6 * 4 bytes, the hash, 2 bytes
EntryFixedLen == 35

\* the fields read_from_file reads for the entry that starts at pos, in the
\* order it reads them
ReadEntry(bytes, pos) ==
    LET u(from, w) == FromBeBytes(SubSeq(bytes, pos + from, pos + from + w - 1))
    IN  [ mtime |-> u(0, 8), dev |-> u(8, 4), ino |-> u(12, 4),
          mode |-> u(16, 4), uid |-> u(20, 4), gid |-> u(24, 4),
          size |-> u(28, 4), hash |-> bytes[pos + 32], flags |-> u(33, 2),
          path |-> PathFromStr(SubSeq(bytes, pos + EntryFixedLen,
                                      PathEnd(bytes, pos + EntryFixedLen) - 1)) ]

RECURSIVE ReadEntries(_, _, _, _)
\* the loop of read_from_file: count entries from pos on, inserted into the map
ReadEntries(bytes, pos, count, acc) ==
    IF count = 0 THEN [ok |-> TRUE, entries |-> acc]
    ELSE IF pos + EntryFixedLen > Len(bytes) \/ PathEnd(bytes, pos + EntryFixedLen) = 0
    THEN [ok |-> FALSE, entries |-> acc]
    ELSE LET e == ReadEntry(bytes, pos)
         IN  ReadEntries(bytes, PathEnd(bytes, pos + EntryFixedLen) + 1, count - 1,
                         FsWrite(acc, e.path, e))

\* Index::read_from_file on the content of an existing file
ReadFromFile(bytes) ==
    IF Len(bytes) < 12 \/ SubSeq(bytes, 1, 4) # INDEX_SIGNATURE
    THEN [ok |-> FALSE, entries |-> EmptyMap]
    ELSE IF FromBeBytes(SubSeq(bytes, 5, 8)) # INDEX_VERSION
    THEN [ok |-> FALSE, entries |-> EmptyMap]
    ELSE ReadEntries(bytes, 13, FromBeBytes(SubSeq(bytes, 9, 12)), EmptyMap)

-----------------------------------------------------------------------------
(* The index round trip: write_to_file, then read_from_file *)

IndexPaths == {<<"a">>, <<"d", "b">>}

IndexEntries(p) ==
    [ mtime : {0, 300}, dev : {1}, ino : {2}, mode : {33188}, uid : {0, 1000},
      gid : {1000}, size : {0, 100}, hash : {"h0", "h1"}, flags : {0}, path : {p} ]

InitIndex ==
    /\ objects = EmptyMap
    /\ voxDir = TRUE
    /\ indexFile = NoFile
    /\ head = NoFile
    /\ heads = EmptyMap
    /\ wd = EmptyMap
    /\ now = 0
    /\ last = NoSave
    /\ used = 0
    /\ \E ps \in SUBSET IndexPaths :
          \E es \in [ps -> UNION {IndexEntries(p) : p \in IndexPaths}] :
            /\ \A p \in ps : es[p].path = p
            /\ ix = [pc |-> "new", entries |-> es, ok |-> TRUE, loaded |-> EmptyMap]

\* original_index.write_to_file(&index_path)
IndexWrite ==
    /\ ix.pc = "new"
    /\ indexFile' = WriteToFile(ix.entries)
    /\ ix' = [ix EXCEPT !.pc = "written"]
    /\ UNCHANGED <<objects, voxDir, head, heads, wd, now, last, used>>

\* read_index.read_from_file(&index_path) into a new Index
IndexRead ==
    /\ ix.pc = "written"
    /\ ix' = [ix EXCEPT !.pc = "read",
                        !.ok = ReadFromFile(indexFile).ok,
                        !.loaded = ReadFromFile(indexFile).entries]
    /\ UNCHANGED <<objects, voxDir, indexFile, head, heads, wd, now, last, used>>

NextIndex == IndexWrite \/ IndexRead

SpecIndex == InitIndex /\ [][NextIndex]_vars

\* C1: index round trip: reading the file that write_to_file wrote yields an
\* index whose entries equal the written ones field by field.
C1_IndexRoundTrip ==
    ix.pc = "read" => ix.ok /\ ix.loaded = ix.entries

-----------------------------------------------------------------------------
(* The working directory.                                                  *)
(* A map from the path of every regular file (a sequence of components,    *)
(* relative to the repository root) to its content and mtime.  A directory *)
(* exists where a file lies below it.                                      *)

\* names that start with '.'
DotNames == {".h", ".vox", ".git"}

StartsWithDot(name) == name \in DotNames

IsPrefix(dir, path) ==
    Len(path) > Len(dir) /\ SubSeq(path, 1, Len(dir)) = dir

\* path.is_file()
IsFile(files, path) == path \in DOMAIN files

\* path.is_dir()
IsDir(files, path) == \E q \in DOMAIN files : IsPrefix(path, q)

\* fs::read_dir(dir): the names of the entries of a directory
ReadDir(files, dir) ==
    {q[Len(dir) + 1] : q \in {r \in DOMAIN files : IsPrefix(dir, r)}}

NameIndex(name) == CHOOSE i \in 1..Len(NameOrder) : NameOrder[i] = name

\* a set of names as a sequence in byte order
SortNames(names) ==
    LET n == Cardinality(names) IN
    CHOOSE seq \in [1..n -> names] :
        \A i, j \in 1..n : i < j => NameIndex(seq[i]) < NameIndex(seq[j])

-----------------------------------------------------------------------------
(* Trees of the working directory: create_tree, store_tree, read_tree *)

\* tree.entries.sort_by(|a, b| a.name.cmp(&b.name))
SortEntries(entries) ==
    LET n == Len(entries) IN
    IF n <= 1 THEN entries
    ELSE LET perm == CHOOSE f \in [1..n -> 1..n] :
                /\ \A i, j \in 1..n : i # j => f[i] # f[j]
                /\ \A i, j \in 1..n : i < j =>
                      NameIndex(entries[f[i]].name) <= NameIndex(entries[f[j]].name)
         IN  [i \in 1..n |-> entries[perm[i]]]

\* store_tree together with the record of whether it wrote the object file
StoreTreeLogged(acc, entries) ==
    [ store |-> StoreTree(acc.store, entries),
      log |-> IF StoreTreeHash(entries) \in DOMAIN acc.store THEN acc.log
              ELSE Append(acc.log, <<OBJ_TYPE_TREE, StoreTreeHash(entries)>>) ]

RECURSIVE CreateTreeLoop(_, _, _, _)
\* the loop of create_tree over the entries of dir; acc carries the entries
\* collected so far, the object store and the record of the files written.
\* read_dir gives the names in no promised order and the entries are sorted
\* at the end; the names are visited here in byte order.
CreateTreeLoop(files, dir, names, acc) ==
    IF names = <<>> THEN [acc EXCEPT !.entries = SortEntries(acc.entries)]
    ELSE
    LET name == Head(names)
        path == Append(dir, name)
    IN
    IF StartsWithDot(name) \/ name = "target"
    THEN CreateTreeLoop(files, dir, Tail(names), acc)
    ELSE IF IsFile(files, path)
    THEN CreateTreeLoop(files, dir, Tail(names),
            [ entries |-> Append(acc.entries,
                    TreeEntry(PERM_FILE, OBJ_TYPE_BLOB,
                              BlobSaveHash(files[path].data), name)),
              store |-> BlobSave(acc.store, files[path].data),
              log |-> Append(acc.log,
                            <<OBJ_TYPE_BLOB, BlobSaveHash(files[path].data)>>) ])
    ELSE
    LET sub == CreateTreeLoop(files, path, SortNames(ReadDir(files, path)),
                              [acc EXCEPT !.entries = <<>>])
    IN
    IF sub.entries # <<>>
    THEN CreateTreeLoop(files, dir, Tail(names),
            [ entries |-> Append(acc.entries,
                    TreeEntry(PERM_DIR, OBJ_TYPE_TREE,
                              StoreTreeHash(sub.entries), name)),
              store |-> StoreTreeLogged(sub, sub.entries).store,
              log |-> StoreTreeLogged(sub, sub.entries).log ])
    ELSE CreateTreeLoop(files, dir, Tail(names),
            [acc EXCEPT !.store = sub.store, !.log = sub.log])

\* create_tree(dir): the entries of the tree, with the store and the record
\* of writes after the blobs and subtrees it saved
CreateTree(files, store, dir) ==
    CreateTreeLoop(files, dir, SortNames(ReadDir(files, dir)),
                   [entries |-> <<>>, store |-> store, log |-> <<>>])

\* mode.starts_with("40"), over the modes of the model
StartsWith40(mode) == mode = PERM_DIR

RECURSIVE ReadTreeLoop(_, _, _)
\* the loop of read_tree over the payload from pos on
ReadTreeLoop(content, pos, acc) ==
    IF pos > Len(content) THEN [ok |-> TRUE, entries |-> acc]
    ELSE
    LET nul == PathEnd(content, pos) IN
    IF nul = 0 THEN [ok |-> FALSE, entries |-> acc]
    ELSE IF nul - pos < 2 THEN [ok |-> FALSE, entries |-> acc]
    ELSE IF nul + 1 > Len(content) THEN [ok |-> FALSE, entries |-> acc]
    ELSE ReadTreeLoop(content, nul + 2,
            Append(acc,
                TreeEntry(content[pos],
                          IF StartsWith40(content[pos]) THEN OBJ_TYPE_TREE
                          ELSE OBJ_TYPE_BLOB,
                          content[nul + 1],
                          content[pos + 1])))

\* read_tree(hash): the entries of the stored tree, or an error
ReadTree(store, hash) ==
    IF hash \notin DOMAIN store THEN [ok |-> FALSE, entries |-> <<>>]
    ELSE IF ~IsZlib(store[hash]) THEN [ok |-> FALSE, entries |-> <<>>]
    ELSE IF NullPos(ZlibDecompress(store[hash])) = 0
    THEN [ok |-> FALSE, entries |-> <<>>]
    ELSE ReadTreeLoop(AfterNull(ZlibDecompress(store[hash])), 1, <<>>)

-----------------------------------------------------------------------------
(* Loading a commit: Commit::load and Commit::parse *)

\* the largest number whose decimal text parse::<i64> is asked to read
MaxParsed == 20

RECURSIVE SplitLines(_, _, _)
\* content.lines(): the text between the line feeds; an empty last line is
\* not a line
SplitLines(content, cur, acc) ==
    IF content = <<>> THEN (IF cur = <<>> THEN acc ELSE Append(acc, cur))
    ELSE IF Head(content) = LF THEN SplitLines(Tail(content), <<>>, Append(acc, cur))
    ELSE SplitLines(Tail(content), Append(cur, Head(content)), acc)

\* the text of a run of words as one value
Words(ws) == IF Len(ws) = 1 THEN ws[1] ELSE ToString(ws)

\* the texts with a sign that str::parse::<i64> reads: an optional '+' or
\* '-' and decimal digits, leading zeros allowed
SignedTexts == {"+0000", "-0500"}

\* str::parse::<i64> succeeds
IsI64(word) ==
    \/ \E n \in 0..MaxParsed : ToString(n) = word
    \/ word \in SignedTexts

\* the value str::parse::<i64> returns
ParseI64(word) ==
    IF word = "+0000" THEN 0
    ELSE IF word = "-0500" THEN 0 - 500
    ELSE CHOOSE n \in 0..MaxParsed : ToString(n) = word

NoCommit ==
    [ok |-> TRUE, reading |-> FALSE, tree |-> <<>>, parent |-> <<>>,
     author |-> <<>>, timestamp |-> <<>>, message |-> <<>>]

RECURSIVE ParseLoop(_, _)
\* the loop of Commit::parse over the lines
ParseLoop(lines, st) ==
    IF lines = <<>> \/ ~st.ok THEN st
    ELSE
    LET line == Head(lines) IN
    IF st.reading
    THEN ParseLoop(Tail(lines), [st EXCEPT !.message = Append(@, line)])
    ELSE IF line = <<>>
    THEN ParseLoop(Tail(lines), [st EXCEPT !.reading = TRUE])
    ELSE IF Len(line) < 2 THEN [st EXCEPT !.ok = FALSE]
    ELSE IF line[1] = "tree"
    THEN ParseLoop(Tail(lines), [st EXCEPT !.tree = <<Words(Tail(line))>>])
    ELSE IF line[1] = "parent"
    THEN ParseLoop(Tail(lines), [st EXCEPT !.parent = <<Words(Tail(line))>>])
    ELSE IF line[1] = "author"
    THEN IF Len(line) < 3 \/ ~IsI64(line[Len(line)])
         THEN [st EXCEPT !.ok = FALSE]
         ELSE ParseLoop(Tail(lines),
                [st EXCEPT !.author = <<Words(SubSeq(line, 2, Len(line) - 1))>>,
                           !.timestamp = <<ParseI64(line[Len(line)])>>])
    ELSE [st EXCEPT !.ok = FALSE]

\* Commit::parse
CommitParse(content) ==
    LET st == ParseLoop(SplitLines(content, <<>>, <<>>), NoCommit) IN
    IF ~st.ok \/ st.tree = <<>> \/ st.author = <<>> \/ st.timestamp = <<>>
    THEN [ok |-> FALSE, commit |-> <<>>]
    ELSE [ok |-> TRUE,
          commit |-> [tree |-> st.tree[1], parent |-> st.parent,
                      author |-> st.author[1], timestamp |-> st.timestamp[1],
                      message |-> IF Len(st.message) = 1 THEN Words(st.message[1])
                                  ELSE ToString(st.message)]]

\* Commit::load
CommitLoad(store, hash) ==
    IF hash \notin DOMAIN store THEN [ok |-> FALSE, commit |-> <<>>]
    ELSE IF ~IsZlib(store[hash]) THEN [ok |-> FALSE, commit |-> <<>>]
    ELSE
    LET data == ZlibDecompress(store[hash]) IN
    IF NullPos(data) = 0 THEN [ok |-> FALSE, commit |-> <<>>]
    ELSE IF ~(NullPos(data) >= 3 /\ data[1] = OBJ_TYPE_COMMIT)
    THEN [ok |-> FALSE, commit |-> <<>>]
    ELSE CommitParse(AfterNull(data))

-----------------------------------------------------------------------------
(* HEAD and the branch refs *)

RECURSIVE TrimStart(_)
TrimStart(text) ==
    IF text # <<>> /\ Head(text) = LF THEN TrimStart(Tail(text)) ELSE text

RECURSIVE TrimEnd(_)
TrimEnd(text) ==
    IF text # <<>> /\ text[Len(text)] = LF
    THEN TrimEnd(SubSeq(text, 1, Len(text) - 1)) ELSE text

\* fs::read_to_string(..).trim().to_string()
Trim(text) == Words(TrimEnd(TrimStart(text)))

\* format!("ref: refs/heads/{}\n", name)
HeadRef(name) == <<"ref: ", "refs/heads/", name, LF>>

\* head_content.starts_with("ref: ")
IsAttached(h) == Len(h) >= 1 /\ h[1] = "ref: "

\* head_content.trim_start_matches("ref: ").trim(), below refs/heads
HeadBranch(h) == Words(TrimEnd(SubSeq(h, 3, Len(h))))

\* get_current_commit: the parent of the next commit, none as <<>>
GetCurrentCommit(h, refs) ==
    IF IsAttached(h)
    THEN IF HeadBranch(h) \in DOMAIN refs THEN <<Trim(refs[HeadBranch(h)])>> ELSE <<>>
    ELSE <<Trim(h)>>

\* Branch::get_current_branch: the name of the current branch, none as <<>>
GetCurrentBranch(h, refs) ==
    IF IsAttached(h) /\ Len(h) >= 2 /\ h[2] = "refs/heads/"
            /\ HeadBranch(h) \in DOMAIN refs
    THEN <<HeadBranch(h)>> ELSE <<>>

-----------------------------------------------------------------------------
(* get_status *)

\* Index::read_from_file when the file exists, the new Index otherwise
LoadIndex(file) ==
    IF file = NoFile THEN [ok |-> TRUE, entries |-> EmptyMap]
    ELSE ReadFromFile(file)

\* the file that repo_path.join(path) names: the "." components of a path
\* name no directory of their own
Resolve(path) == SelectSeq(path, LAMBDA c : c # ".")

\* full_path.exists()
Exists(files, path) == IsFile(files, path) \/ IsDir(files, path)

\* metadata.mtime() as u64 != index_entry.mtime
\*     || metadata.size() as u32 != index_entry.size
MetadataDiffers(files, path, entry) ==
    \/ ~IsFile(files, path)
    \/ files[path].mtime # entry.mtime
    \/ Len(files[path].data) # entry.size

\* the filter_entry of the walk: what lies below the root entries .vox, .git
\* and target is not visited
Walked(path) == path[1] \notin {".vox", ".git", "target"}

\* get_status(repo_path): (added, modified, deleted, untracked)
GetStatus(files, file) ==
    LET index == LoadIndex(file)
        paths == DOMAIN index.entries
    IN  [ ok |-> index.ok,
          added |-> {q \in paths : Exists(files, Resolve(q))
                        /\ ~MetadataDiffers(files, Resolve(q), index.entries[q])},
          modified |-> {q \in paths : Exists(files, Resolve(q))
                        /\ MetadataDiffers(files, Resolve(q), index.entries[q])},
          deleted |-> {q \in paths : ~Exists(files, Resolve(q))},
          untracked |-> {q \in DOMAIN files : Walked(q) /\ q \notin paths} ]

HasTrackedChanges(status) ==
    status.modified # {} \/ status.deleted # {}

\* the gate of checkout_command without --force
HasUncommitted(status) ==
    status.modified # {} \/ status.deleted # {} \/ status.untracked # {}

-----------------------------------------------------------------------------
(* checkout: clean_working_directory, restore_tree, restore_blob *)

\* path.starts_with(".vcs") || path.starts_with(".git")
\*     || path.starts_with("target"), for a path that read_dir(".") gave:
\* its first component is ".", so none of the three prefixes matches
IsSpecialDir(name) == <<".", name>>[1] \in {".vcs", ".git", "target"}

\* clean_working_directory("."): every entry of the root whose name does not
\* start with a dot is removed, a directory with all that lies below it
CleanWorkingDirectory(files) ==
    LET kept(q) == StartsWithDot(q[1]) \/ (Len(q) > 1 /\ IsSpecialDir(q[1]))
    IN  [q \in {r \in DOMAIN files : kept(r)} |-> files[q]]

\* should_update_file
ShouldUpdateFile(files, path, expected_hash) ==
    IF ~Exists(files, path) THEN TRUE
    ELSE IF IsFile(files, path) THEN Sha1(files[path].data) # expected_hash
    ELSE TRUE

\* restore_blob; failing is the set of paths where fs::write fails
RestoreBlob(store, files, hash, path, failing, t) ==
    IF ~ShouldUpdateFile(files, path, hash) THEN [ok |-> TRUE, files |-> files]
    ELSE IF hash \notin DOMAIN store \/ ~IsZlib(store[hash])
    THEN [ok |-> FALSE, files |-> files]
    ELSE IF NullPos(ZlibDecompress(store[hash])) = 0
    THEN [ok |-> FALSE, files |-> files]
    ELSE IF path \in failing \/ IsDir(files, path)
    THEN [ok |-> FALSE, files |-> files]
    ELSE [ok |-> TRUE,
          files |-> FsWrite(files, path,
                        [data |-> AfterNull(ZlibDecompress(store[hash])),
                         mtime |-> t])]

RECURSIVE RestoreTree(_, _, _, _, _, _)
RECURSIVE RestoreEntries(_, _, _, _, _, _)

\* restore_tree(tree_hash, base_path)
RestoreTree(store, files, tree_hash, base_path, failing, t) ==
    LET tree == ReadTree(store, tree_hash) IN
    IF ~tree.ok THEN [ok |-> FALSE, files |-> files]
    ELSE RestoreEntries(store, files, tree.entries, base_path, failing, t)

\* the loop of restore_tree over the entries of the tree: the result of a
\* nested restore_tree is dropped, the error of restore_blob is returned
RestoreEntries(store, files, entries, base_path, failing, t) ==
    IF entries = <<>> THEN [ok |-> TRUE, files |-> files]
    ELSE
    LET entry == Head(entries)
        path == Append(base_path, entry.name)
    IN
    IF entry.object_type = OBJ_TYPE_TREE
    THEN IF IsFile(files, path) THEN [ok |-> FALSE, files |-> files]
         ELSE RestoreEntries(store,
                RestoreTree(store, files, entry.object_hash, path, failing, t).files,
                Tail(entries), base_path, failing, t)
    ELSE
    LET blob == RestoreBlob(store, files, entry.object_hash, path, failing, t) IN
    IF ~blob.ok THEN blob
    ELSE RestoreEntries(store, blob.files, Tail(entries), base_path, failing, t)

RECURSIVE TreeBlobs(_, _, _)
\* the blob entries reachable from a stored tree, each with its path
TreeBlobs(store, tree_hash, base_path) ==
    LET tree == ReadTree(store, tree_hash) IN
    IF ~tree.ok THEN {}
    ELSE UNION {
        IF tree.entries[i].object_type = OBJ_TYPE_TREE
        THEN TreeBlobs(store, tree.entries[i].object_hash,
                       Append(base_path, tree.entries[i].name))
        ELSE {[path |-> Append(base_path, tree.entries[i].name),
               hash |-> tree.entries[i].object_hash]}
        : i \in 1..Len(tree.entries)}

-----------------------------------------------------------------------------
(* The commands.  Each operator gives the files of the repository after the *)
(* command, whether it returned Ok, and the record of the files it read and *)
(* wrote, in order: <<kind, name>> with kind one of blob, tree, commit      *)
(* (an object file written), ref, HEAD, index (that file written) and       *)
(* index_load (the index file read).                                         *)

\* init_command
InitCommand(refs) ==
    [ ok |-> TRUE, head |-> HeadRef("main"), heads |-> refs,
      indexFile |-> WriteToFile(EmptyMap),
      log |-> << <<"HEAD", "">>, <<"index", "">> >> ]

\* IndexEntry::new(abs_path) with the path and the hash create_index_entry sets
NewIndexEntry(files, path) ==
    LET file == files[Resolve(path)] IN
    [ mtime |-> file.mtime, dev |-> 1, ino |-> 2, mode |-> 33188,
      uid |-> 1000, gid |-> 1000, size |-> Len(file.data),
      hash |-> BlobHash(file.data), flags |-> 0, path |-> path ]

\* the files add_path stages for one argument: the file itself, or the files
\* below the directory that the walk visits
AddedPaths(files, path) ==
    IF IsFile(files, Resolve(path)) THEN {path}
    ELSE {q \in DOMAIN files :
            /\ IsPrefix(Resolve(path), q)
            /\ q[1] \notin {".vox", ".git", "target", "build"}}

RECURSIVE SaveBlobs(_, _, _)
\* Blob::blob_hash for each of the files, in path order
SaveBlobs(store, files, order) ==
    IF order = <<>> THEN store
    ELSE SaveBlobs(BlobSave(store, files[Resolve(Head(order))].data), files,
                   Tail(order))

\* add_command(&[path])
AddCommand(repo, files, store, file, path) ==
    LET index == LoadIndex(file)
        paths == AddedPaths(files, path)
        order == SortedPaths([q \in paths |-> q])
    IN
    IF ~repo \/ ~index.ok
    THEN [ok |-> FALSE, objects |-> store, indexFile |-> file, log |-> <<>>]
    ELSE IF ~IsFile(files, Resolve(path)) /\ Resolve(path) # <<>>
            /\ ~IsDir(files, Resolve(path))
    THEN [ok |-> FALSE, objects |-> store, indexFile |-> file,
          log |-> << <<"index_load", "">> >>]
    ELSE [ok |-> TRUE,
          objects |-> SaveBlobs(store, files, order),
          indexFile |-> WriteToFile(
                [q \in (DOMAIN index.entries) \cup paths |->
                    IF q \in paths THEN NewIndexEntry(files, q)
                    ELSE index.entries[q]]),
          log |-> << <<"index_load", "">> >>
                  \o [i \in 1..Len(order) |->
                        <<OBJ_TYPE_BLOB,
                          BlobHash(files[Resolve(order[i])].data)>>]
                  \o << <<"index", "">> >>]

\* commit.save(..), with the injected failure of the write of the object file
CommitSaveResult(store, c, fault) ==
    IF fault = "commit_write" THEN [ok |-> FALSE, store |-> store]
    ELSE [ok |-> TRUE, store |-> CommitSave(store, c)]

SaveErrorIgnored(saved) == FALSE

\* the ? of `commit.save(..)?`: commit_command returns the error of save
SaveErrorReturned(saved) == ~saved.ok

\* the branch file and HEAD both rewritten with the hash
UpdateBoth(h, refs, commit_hash) ==
    [head |-> <<commit_hash, LF>>,
     heads |-> IF IsAttached(h) THEN FsWrite(refs, HeadBranch(h), <<commit_hash, LF>>)
               ELSE refs,
     log |-> << <<"HEAD", "">> >>]

\* update_current_branch(commit_hash)
UpdateCurrentBranch(h, refs, commit_hash) ==
    IF IsAttached(h)
    THEN [head |-> h, heads |-> FsWrite(refs, HeadBranch(h), <<commit_hash, LF>>),
          log |-> << <<"ref", HeadBranch(h)>> >>]
    ELSE [head |-> <<commit_hash, LF>>, heads |-> refs,
          log |-> << <<"HEAD", "">> >>]

\* commit_command(message, author)
CommitCommand(repo, files, store, file, h, refs, t, message, author, fault) ==
    LET unchanged(ok, objs, log) ==
            [ok |-> ok, objects |-> objs, indexFile |-> file, head |-> h,
             heads |-> refs, log |-> log, made |-> ""]
        tree == CreateTree(files, store, <<>>)
        stored == StoreTreeLogged(tree, tree.entries)
        commit == [tree |-> StoreTreeHash(tree.entries),
                   parent |-> GetCurrentCommit(h, refs),
                   author |-> author, timestamp |-> t, message |-> message]
        saved == CommitSaveResult(stored.store, commit, fault)
        advanced == UpdateCurrentBranch(h, refs, CommitHash(commit))
        index == ReadFromFile(file)
        written == stored.log \o << <<OBJ_TYPE_COMMIT, CommitHash(commit)>> >>
                        \o advanced.log \o << <<"index_load", "">> >>
    IN
    IF ~repo THEN unchanged(FALSE, store, <<>>)
    ELSE IF file = NoFile THEN unchanged(FALSE, store, <<>>)
    ELSE IF h = NoFile THEN unchanged(FALSE, stored.store, stored.log)
    ELSE IF SaveErrorReturned(saved) THEN unchanged(FALSE, saved.store, stored.log)
    ELSE [ ok |-> index.ok, objects |-> saved.store,
           indexFile |-> IF index.ok THEN WriteToFile(index.entries) ELSE file,
           head |-> advanced.head, heads |-> advanced.heads,
           log |-> IF index.ok THEN Append(written, <<"index", "">>) ELSE written,
           made |-> CommitHash(commit) ]

\* Branch::get_branch_path(name): the file below refs/heads that the joined
\* path names; a leading "./" names no directory of its own
RefFile(name) ==
    IF name = "./main" THEN "main"
    ELSE IF name = "./dev" THEN "dev"
    ELSE name

\* branch_command(Some(name), false, _): Branch::new at the current branch's commit
BranchCreate(h, refs, name) ==
    IF h = NoFile \/ GetCurrentBranch(h, refs) = <<>> \/ RefFile(name) \in DOMAIN refs
    THEN [ok |-> FALSE, heads |-> refs, log |-> <<>>]
    ELSE [ok |-> TRUE,
          heads |-> FsWrite(refs, RefFile(name),
                        <<LF, Trim(refs[GetCurrentBranch(h, refs)[1]])>>),
          log |-> << <<"ref", RefFile(name)>> >>]

\* branch_command(Some(name), true, _): Branch::delete
BranchDelete(h, refs, name) ==
    IF RefFile(name) \notin DOMAIN refs \/ h = NoFile
            \/ GetCurrentBranch(h, refs) = <<name>>
    THEN [ok |-> FALSE, heads |-> refs, log |-> <<>>]
    ELSE [ok |-> TRUE,
          heads |-> [b \in (DOMAIN refs) \ {RefFile(name)} |-> refs[b]],
          log |-> << <<"ref", RefFile(name)>> >>]

\* the names a branch can have; every other target is 40 characters long
BranchNames == {"main", "dev"}

\* target.len() == 40
IsHashLen(target) == target \notin BranchNames

\* checkout_command(target, force); failing is the set of paths where the
\* write of the restored file fails
CheckoutCommand(files, store, file, h, refs, t, target, force, failing) ==
    LET unchanged == [ok |-> FALSE, wd |-> files, head |-> h, log |-> <<>>]
        status == GetStatus(files, file)
        commit_hash == IF IsHashLen(target) THEN target ELSE Trim(refs[target])
        loaded == CommitLoad(store, commit_hash)
        restored == RestoreTree(store, CleanWorkingDirectory(files),
                                loaded.commit.tree, <<>>, failing, t)
    IN
    IF ~force /\ (~status.ok \/ HasUncommitted(status)) THEN unchanged
    ELSE IF ~IsHashLen(target) /\ target \notin DOMAIN refs THEN unchanged
    ELSE IF ~loaded.ok THEN unchanged
    ELSE IF ~restored.ok THEN [unchanged EXCEPT !.wd = restored.files]
    ELSE [ ok |-> TRUE, wd |-> restored.files,
           head |-> IF IsHashLen(target) THEN <<commit_hash>> ELSE HeadRef(target),
           log |-> << <<"HEAD", "">> >> ]

-----------------------------------------------------------------------------
(* The repository: a working directory and its .vox directory, driven by   *)
(* the user's edits and by the commands init, add, commit, branch and      *)
(* checkout.                                                                *)

MaxTime == 1
MaxSteps == 5

\* the files the user works on
Paths == {<<"a">>, <<"d", "b">>, <<"d", ".h">>, <<"d", "target", "t">>}

\* the arguments of add: a file, the same file spelled with a leading "./",
\* a directory, and the root
AddArgs == Paths \cup {<<>>, <<"d">>, <<".", "a">>}

\* the files whose write can fail during a checkout
FailingPaths == {<<"a">>, <<"d", "b">>}

\* the payloads of the commit objects in the store, as `cat-file -p` shows them
CommitTexts(store) ==
    {AfterNull(ZlibDecompress(store[k])) :
        k \in {j \in DOMAIN store : store[j][2] = OBJ_TYPE_COMMIT}}

\* what the user writes into a file
FileData(store) == {<<"x">>} \cup CommitTexts(store)

DefaultAuthor == "Unknown <unknown@example.com>"

\* the files of .vox before a command runs
Pre == [repo |-> voxDir, indexFile |-> indexFile, head |-> head, heads |-> heads]

NoCmd ==
    [ op |-> "none", ok |-> TRUE, log |-> <<>>, fault |-> "none", target |-> "",
      made |-> "", clean |-> FALSE, tracked |-> EmptyMap, follows |-> FALSE,
      force |-> FALSE,
      status |-> [added |-> {}, modified |-> {}, deleted |-> {},
                  untracked |-> {}],
      pre |-> [repo |-> FALSE, indexFile |-> NoFile, head |-> NoFile,
               heads |-> EmptyMap] ]

\* the record of a command that has run
Ran(op, r) == [NoCmd EXCEPT !.op = op, !.ok = r.ok, !.log = r.log, !.pre = Pre]

Init ==
    /\ objects = EmptyMap
    /\ voxDir = FALSE
    /\ indexFile = NoFile
    /\ head = NoFile
    /\ heads = EmptyMap
    /\ wd = EmptyMap
    /\ now = 0
    /\ last = NoCmd
    /\ ix = <<>>
    /\ used = 0

\* the user writes a file of the working directory
WriteFile(path, data) ==
    /\ used < MaxSteps
    /\ ~(IsFile(wd, path) /\ wd[path] = [data |-> data, mtime |-> now])
    /\ wd' = FsWrite(wd, path, [data |-> data, mtime |-> now])
    /\ used' = used + 1
    /\ last' = NoCmd
    /\ UNCHANGED <<objects, voxDir, indexFile, head, heads, now, ix>>

\* the user removes a file of the working directory
DeleteFile(path) ==
    /\ used < MaxSteps
    /\ IsFile(wd, path)
    /\ wd' = [q \in (DOMAIN wd) \ {path} |-> wd[q]]
    /\ used' = used + 1
    /\ last' = NoCmd
    /\ UNCHANGED <<objects, voxDir, indexFile, head, heads, now, ix>>

\* a second passes
Tick ==
    /\ used < MaxSteps
    /\ now < MaxTime
    /\ now' = now + 1
    /\ used' = used + 1
    /\ last' = NoCmd
    /\ UNCHANGED <<objects, voxDir, indexFile, head, heads, wd, ix>>

\* vox init
RepoInit ==
    /\ used < MaxSteps
    /\ LET r == InitCommand(heads) IN
        /\ voxDir' = TRUE
        /\ head' = r.head
        /\ indexFile' = r.indexFile
        /\ last' = Ran("init", r)
    /\ used' = used + 1
    /\ UNCHANGED <<objects, heads, wd, now, ix>>

\* vox add <path>
Add(path) ==
    /\ used < MaxSteps
    /\ LET r == AddCommand(voxDir, wd, objects, indexFile, path) IN
        /\ objects' = r.objects
        /\ indexFile' = r.indexFile
        /\ last' = Ran("add", r)
    /\ used' = used + 1
    /\ UNCHANGED <<voxDir, head, heads, wd, now, ix>>

\* vox status: get_status, then get_current_commit for the heading
Status ==
    /\ used < MaxSteps
    /\ LET st == GetStatus(wd, indexFile) IN
        last' = [Ran("status",
                     [ok |-> st.ok /\ head # NoFile,
                      log |-> << <<"index_load", "">> >>
                              \o (IF st.ok THEN << <<"HEAD", "">> >> ELSE <<>>)])
                    EXCEPT !.status = [added |-> st.added,
                                       modified |-> st.modified,
                                       deleted |-> st.deleted,
                                       untracked |-> st.untracked]]
    /\ used' = used + 1
    /\ UNCHANGED <<objects, voxDir, indexFile, head, heads, wd, now, ix>>

\* the content of the files the index lists, where they exist
Tracked(files, file) ==
    LET index == LoadIndex(file) IN
    [q \in {r \in DOMAIN index.entries : IsFile(files, Resolve(r))} |->
        files[Resolve(q)].data]

\* no file is modified, deleted or untracked
Clean(files, file) ==
    GetStatus(files, file).ok /\ ~HasUncommitted(GetStatus(files, file))

\* vox commit -m <message>, with or without a failure of the commit write
Commit(message, author, fault) ==
    /\ used < MaxSteps
    /\ LET r == CommitCommand(voxDir, wd, objects, indexFile, head, heads, now,
                              message, author, fault)
       IN
        /\ objects' = r.objects
        /\ indexFile' = r.indexFile
        /\ head' = r.head
        /\ heads' = r.heads
        /\ last' = [Ran("commit", r) EXCEPT
                        !.fault = fault, !.made = r.made,
                        !.clean = Clean(wd, indexFile),
                        !.tracked = Tracked(wd, indexFile)]
    /\ used' = used + 1
    /\ UNCHANGED <<voxDir, wd, now, ix>>

\* vox branch <name>
Branch(name) ==
    /\ used < MaxSteps
    /\ LET r == BranchCreate(head, heads, name) IN
        /\ heads' = r.heads
        /\ last' = Ran("branch", r)
    /\ used' = used + 1
    /\ UNCHANGED <<objects, voxDir, indexFile, head, wd, now, ix>>

\* vox branch -d <name>
BranchRemove(name) ==
    /\ used < MaxSteps
    /\ LET r == BranchDelete(head, heads, name) IN
        /\ heads' = r.heads
        /\ last' = Ran("branch_delete", r)
    /\ used' = used + 1
    /\ UNCHANGED <<objects, voxDir, indexFile, head, wd, now, ix>>

\* vox checkout [--force] <target>
Checkout(target, force, failing) ==
    /\ used < MaxSteps
    /\ LET r == CheckoutCommand(wd, objects, indexFile, head, heads, now,
                                target, force, failing)
       IN
        /\ wd' = r.wd
        /\ head' = r.head
        /\ last' = [Ran("checkout", r) EXCEPT
                        !.target = target,
                        !.force = force,
                        !.fault = IF failing = {} THEN "none" ELSE "restore",
                        !.follows = last.op = "commit" /\ last.ok /\ last.clean
                                        /\ last.made = target,
                        !.tracked = last.tracked]
    /\ used' = used + 1
    /\ UNCHANGED <<objects, voxDir, indexFile, heads, now, ix>>

Next ==
    \/ \E path \in Paths : \E data \in FileData(objects) : WriteFile(path, data)
    \/ \E path \in Paths : DeleteFile(path)
    \/ Tick
    \/ RepoInit
    \/ \E path \in AddArgs : Add(path)
    \/ Status
    \/ \E fault \in {"none", "commit_write"} : Commit("m", DefaultAuthor, fault)
    \/ \E name \in BranchNames : Branch(name)
    \/ \E name \in BranchNames : BranchRemove(name)
    \/ \E target \in BranchNames \cup DOMAIN objects :
        \E force \in BOOLEAN :
            \E failing \in {{}} \cup {{path} : path \in FailingPaths} :
                Checkout(target, force, failing)

Spec == Init /\ [][Next]_vars

-----------------------------------------------------------------------------
(* Properties of the repository *)

\* C5: in every state that init, add, commit, branch and checkout reach, each
\* file under refs/heads, and HEAD when it is detached, holds the hash of an
\* object that is in the store and that Commit::load loads as a commit.
C5_RefsResolve ==
    /\ \A b \in DOMAIN heads : CommitLoad(objects, Trim(heads[b])).ok
    /\ (head # NoFile /\ ~IsAttached(head)) => CommitLoad(objects, Trim(head)).ok

\* the place of a step in the order index load, tree build and write, commit
\* write, branch advance; a write of the index comes in no place of that order
StepRank(e) ==
    IF e[1] = "index_load" THEN 1
    ELSE IF e[1] \in {OBJ_TYPE_BLOB, OBJ_TYPE_TREE} THEN 2
    ELSE IF e[1] = OBJ_TYPE_COMMIT THEN 3
    ELSE IF e[1] \in {"ref", "HEAD"} THEN 4
    ELSE 5

\* C6: a commit that succeeds loads the index, then builds and writes the
\* tree, then writes the commit, then advances the branch, in that order, and
\* writes no file of the repository after it has advanced the branch.
C6_BranchAdvanceLast ==
    (last.op = "commit" /\ last.ok) =>
        /\ \E i \in 1..Len(last.log) : StepRank(last.log[i]) = 1
        /\ \E i \in 1..Len(last.log) : StepRank(last.log[i]) = 4
        /\ \A i, j \in 1..Len(last.log) :
                i < j => StepRank(last.log[i]) <= StepRank(last.log[j])
        /\ \A i \in 1..Len(last.log) : StepRank(last.log[i]) <= 4

\* C7: when the write of the commit object fails, commit returns an error and
\* HEAD and every branch ref hold what they held before the command.
C7_BranchAdvanceAtomic ==
    (last.op = "commit" /\ last.fault = "commit_write") =>
        /\ ~last.ok
        /\ heads = last.pre.heads
        /\ head = last.pre.head

\* a commit failed at the write of the commit object, on a branch that had a
\* commit before
C7_Witness ==
    /\ last.op = "commit" /\ last.fault = "commit_write" /\ ~last.ok
    /\ last.pre.repo /\ last.pre.indexFile # NoFile /\ last.pre.head # NoFile
    /\ GetCurrentCommit(last.pre.head, last.pre.heads) # <<>>
    /\ last.log # <<>>

\* no index file, or an index without entries
NoStagedChanges(file) ==
    file = NoFile \/ DOMAIN LoadIndex(file).entries = {}

\* C8: without a repository, or with nothing staged (the empty index of init
\* included), commit returns an error, writes no tree and no commit object,
\* and leaves HEAD and the branch refs as they were.
C8_CommitRefuses ==
    (last.op = "commit" /\ (~last.pre.repo \/ NoStagedChanges(last.pre.indexFile))) =>
        /\ ~last.ok
        /\ \A i \in 1..Len(last.log) :
                last.log[i][1] \notin {OBJ_TYPE_TREE, OBJ_TYPE_COMMIT}
        /\ heads = last.pre.heads
        /\ head = last.pre.head

\* C9: after a commit of a clean working directory and a checkout of the hash
\* of that commit in which no write failed, every file that was tracked at the
\* commit is present with the content it had.
C9_CheckoutInverse ==
    (last.op = "checkout" /\ last.ok /\ last.follows /\ last.fault = "none") =>
        \A q \in DOMAIN last.tracked :
            IsFile(wd, Resolve(q)) /\ wd[Resolve(q)].data = last.tracked[q]

\* the commit a checkout target names
TargetHash(target, refs) ==
    IF IsHashLen(target) THEN target ELSE Trim(refs[target])

\* C10: after a checkout that returned Ok, every blob entry reachable from
\* the root tree of the target commit is a file of the working directory at
\* its path, with the content of the blob.
C10_CheckoutMaterializes ==
    (last.op = "checkout" /\ last.ok) =>
        \A e \in TreeBlobs(objects,
                    CommitLoad(objects, TargetHash(last.target, heads)).commit.tree,
                    <<>>) :
            /\ IsFile(wd, e.path)
            /\ wd[e.path].data = BlobLoad(objects, e.hash).data

\* the status of the working directory reports a modified, a deleted or an
\* untracked file
StatusDirty(files, file) ==
    \/ GetStatus(files, file).modified # {}
    \/ GetStatus(files, file).deleted # {}
    \/ GetStatus(files, file).untracked # {}

\* C11: a checkout without force, run when status reports a modified, deleted
\* or untracked file, returns an error and leaves the files of the working
\* directory and HEAD as they were.
C11_CheckoutRefusesDirty ==
    [][(last'.op = "checkout" /\ ~last'.force /\ StatusDirty(wd, indexFile)) =>
            (~last'.ok /\ wd' = wd /\ head' = head)]_vars

\* a checkout without force of a branch that exists was refused while a file
\* of the working directory was untracked, modified or deleted
C11_Witness ==
    /\ last.op = "checkout" /\ ~last.force /\ ~last.ok
    /\ last.target \in DOMAIN heads
    /\ StatusDirty(wd, indexFile)
    /\ wd # EmptyMap

\* the file of the working directory an index path or a status path names
FileOf(path) == SelectSeq(path, LAMBDA c : c # ".")

\* C14: get_status puts every indexed path in exactly one of deleted (no such
\* file), modified (the file is there with another mtime or size than the
\* entry) and added (otherwise); untracked holds exactly the files outside
\* .vox, .git and target that have no index entry; and no file is listed in
\* two of the four sets.
C14_StatusPartition ==
    (last.op = "status" /\ LoadIndex(indexFile).ok) =>
        LET entries == LoadIndex(indexFile).entries
            st == last.status
            present(q) == FileOf(q) \in DOMAIN wd
            same(q) == /\ wd[FileOf(q)].mtime = entries[q].mtime
                       /\ Len(wd[FileOf(q)].data) = entries[q].size
            listed(set) == {FileOf(q) : q \in set}
        IN  /\ \A q \in DOMAIN entries :
                /\ q \in st.deleted <=> ~present(q)
                /\ q \in st.modified <=> (present(q) /\ ~same(q))
                /\ q \in st.added <=> (present(q) /\ same(q))
            /\ st.deleted \cup st.modified \cup st.added = DOMAIN entries
            /\ st.untracked =
                    {f \in DOMAIN wd :
                        /\ f[1] \notin {".vox", ".git", "target"}
                        /\ \A q \in DOMAIN entries : FileOf(q) # f}
            /\ listed(st.untracked) \cap listed(DOMAIN entries) = {}

-----------------------------------------------------------------------------
(* The in-memory Index: add_entry, remove_entry, get_entry.                 *)
(* A path is the sequence of its components as PathBuf keeps them: a        *)
(* leading "." stays a component, so "./a" is <<".", "a">>.                  *)

MaxIndexOps == 3

\* the paths the callers pass; "./a" and "a" name the same file
KeyPaths == {<<"a">>, <<".", "a">>, <<"d", "b">>, <<".", "d", "b">>}

KeyEntries(p) ==
    {e \in IndexEntries(p) : e.mtime = 0 /\ e.uid = 1000 /\ e.size = 0}

\* path.starts_with("./") then path.strip_prefix("./")
StripDotSlash(path) ==
    IF Len(path) >= 1 /\ path[1] = "." THEN Tail(path) ELSE path

\* Index::add_entry: self.entries.insert(entry.path.clone(), entry)
AddEntry(entries, entry) == FsWrite(entries, entry.path, entry)

\* Index::remove_entry: self.entries.remove(path)
RemoveEntry(entries, path) ==
    [k \in (DOMAIN entries) \ {path} |-> entries[k]]

\* Index::get_entry: the entry found, none as <<>>
GetEntry(entries, path) ==
    IF StripDotSlash(path) \in DOMAIN entries
    THEN <<entries[StripDotSlash(path)]>> ELSE <<>>

\* create_index_entry: the key is the path as the user typed it, joined to the
\* empty relative base of a command run at the repository root
AddKey(path) == path

InitKeys ==
    /\ objects = EmptyMap
    /\ voxDir = TRUE
    /\ indexFile = NoFile
    /\ head = NoFile
    /\ heads = EmptyMap
    /\ wd = EmptyMap
    /\ now = 0
    /\ used = 0
    /\ last = [op |-> "none", path |-> <<>>, ret |-> <<>>]
    /\ ix = [entries |-> EmptyMap, recent |-> EmptyMap]

\* index.add_entry(entry), from a caller or from add <path>; recent keeps,
\* per file, the entry inserted last
KeyInsert(entry) ==
    /\ used < MaxIndexOps
    /\ ix' = [entries |-> AddEntry(ix.entries, [entry EXCEPT !.path = AddKey(@)]),
              recent |-> FsWrite(ix.recent, StripDotSlash(entry.path), entry)]
    /\ last' = [op |-> "insert", path |-> entry.path, ret |-> <<>>]
    /\ used' = used + 1
    /\ UNCHANGED <<objects, voxDir, indexFile, head, heads, wd, now>>

\* index.remove_entry(path)
KeyRemove(path) ==
    /\ used < MaxIndexOps
    /\ ix' = [entries |-> RemoveEntry(ix.entries, path),
              recent |-> RemoveEntry(ix.recent, StripDotSlash(path))]
    /\ last' = [op |-> "remove", path |-> path, ret |-> <<>>]
    /\ used' = used + 1
    /\ UNCHANGED <<objects, voxDir, indexFile, head, heads, wd, now>>

\* index.get_entry(path)
KeyGet(path) ==
    /\ used < MaxIndexOps
    /\ last' = [op |-> "get", path |-> path, ret |-> GetEntry(ix.entries, path)]
    /\ used' = used + 1
    /\ UNCHANGED <<objects, voxDir, indexFile, head, heads, wd, now, ix>>

NextKeys ==
    \/ \E p \in KeyPaths : \E e \in KeyEntries(p) : KeyInsert(e)
    \/ \E p \in KeyPaths : KeyRemove(p)
    \/ \E p \in KeyPaths : KeyGet(p)

SpecKeys == InitKeys /\ [][NextKeys]_vars

\* C12: the index holds at most one entry per file, whatever spelling of the
\* path ("a" or "./a") the entries were inserted under, and get_entry(p)
\* returns the entry inserted last for the file p names, none when the file
\* has no entry.
C12_OneEntryPerPath ==
    /\ \A j, k \in DOMAIN ix.entries :
            StripDotSlash(j) = StripDotSlash(k) => j = k
    /\ last.op = "get" =>
            last.ret = IF StripDotSlash(last.path) \in DOMAIN ix.recent
                       THEN <<ix.recent[StripDotSlash(last.path)]>> ELSE <<>>

-----------------------------------------------------------------------------
(* A writer of a ref or of the index, and a reader of the same file.        *)
(* fs::write and File::create open the file with O_TRUNC and then write     *)
(* into it; every write_all is a step of its own.                            *)

MaxWrites == 2

RefHashes == {"c1", "c2"}

RECURSIVE Flatten(_)
Flatten(chunks) ==
    IF chunks = <<>> THEN <<>> ELSE Head(chunks) \o Flatten(Tail(chunks))

\* the write_all calls of write_to_file for one entry
EntryChunks(e) ==
    << ToBeBytes(e.mtime, 8), ToBeBytes(e.dev, 4), ToBeBytes(e.ino, 4),
       ToBeBytes(e.uid, 4), ToBeBytes(e.gid, 4), ToBeBytes(e.mode, 4),
       ToBeBytes(e.size, 4), <<e.hash>>, ToBeBytes(e.flags, 2),
       PathToStr(e.path), <<NUL>> >>

RECURSIVE EntriesChunks(_, _)
EntriesChunks(entries, order) ==
    IF order = <<>> THEN <<>>
    ELSE EntryChunks(entries[order[1]]) \o EntriesChunks(entries, Tail(order))

\* the write_all calls of Index::write_to_file, in order
IndexChunks(entries) ==
    << INDEX_SIGNATURE, ToBeBytes(INDEX_VERSION, 4),
       ToBeBytes(Cardinality(DOMAIN entries), 4) >>
    \o EntriesChunks(entries, SortedPaths(entries))

\* the write of fs::write(&ref_path, format!("{}\n", commit_hash))
RefChunks(commit_hash) == << <<commit_hash, LF>> >>

\* the indexes the writer saves
WrittenIndexes ==
    {EmptyMap} \cup
    {[q \in {p} |-> e] : p \in {<<"a">>}, e \in KeyEntries(<<"a">>)}

Idle == [file |-> "none", chunks |-> <<>>, old |-> <<>>, new |-> <<>>]

InitWriter ==
    /\ objects = EmptyMap
    /\ voxDir = TRUE
    /\ head = HeadRef("main")
    /\ heads = [b \in {"main"} |-> <<"c1", LF>>]
    /\ indexFile = WriteToFile(EmptyMap)
    /\ wd = EmptyMap
    /\ now = 0
    /\ used = 0
    /\ ix = Idle
    /\ last = [op |-> "none", seen |-> <<>>, old |-> <<>>, new |-> <<>>]

\* write_ref / update_current_branch: fs::write creates (truncates) the file
OpenRef(commit_hash) ==
    /\ ix.file = "none" /\ used < MaxWrites
    /\ ix' = [file |-> "ref", chunks |-> RefChunks(commit_hash),
              old |-> heads[HeadBranch(head)], new |-> <<commit_hash, LF>>]
    /\ heads' = [heads EXCEPT ![HeadBranch(head)] = <<>>]
    /\ used' = used + 1
    /\ UNCHANGED <<objects, voxDir, indexFile, head, wd, now, last>>

\* Index::write_to_file: File::create creates (truncates) the file
OpenIndex(entries) ==
    /\ ix.file = "none" /\ used < MaxWrites
    /\ ix' = [file |-> "index", chunks |-> IndexChunks(entries),
              old |-> indexFile, new |-> WriteToFile(entries)]
    /\ indexFile' = <<>>
    /\ used' = used + 1
    /\ UNCHANGED <<objects, voxDir, head, heads, wd, now, last>>

\* the next write_all of the writer; after the last one the file is closed
WriteAll ==
    /\ ix.file # "none"
    /\ IF ix.chunks = <<>> THEN ix' = Idle /\ UNCHANGED <<heads, indexFile>>
       ELSE /\ ix' = [ix EXCEPT !.chunks = Tail(@)]
            /\ IF ix.file = "ref"
               THEN /\ heads' = [heads EXCEPT ![HeadBranch(head)] = @ \o Head(ix.chunks)]
                    /\ UNCHANGED indexFile
               ELSE /\ indexFile' = indexFile \o Head(ix.chunks)
                    /\ UNCHANGED heads
    /\ UNCHANGED <<objects, voxDir, head, wd, now, last, used>>

\* another process reads the ref (read_ref, get_current_commit)
ReadRef ==
    /\ last' = [op |-> "read_ref", seen |-> heads[HeadBranch(head)],
                old |-> IF ix.file = "ref" THEN ix.old ELSE heads[HeadBranch(head)],
                new |-> IF ix.file = "ref" THEN ix.new ELSE heads[HeadBranch(head)]]
    /\ UNCHANGED <<objects, voxDir, indexFile, head, heads, wd, now, ix, used>>

\* another process reads the index (Index::read_from_file)
ReadIndex ==
    /\ last' = [op |-> "read_index", seen |-> indexFile,
                old |-> IF ix.file = "index" THEN ix.old ELSE indexFile,
                new |-> IF ix.file = "index" THEN ix.new ELSE indexFile]
    /\ UNCHANGED <<objects, voxDir, indexFile, head, heads, wd, now, ix, used>>

NextWriter ==
    \/ \E h \in RefHashes : OpenRef(h)
    \/ \E entries \in WrittenIndexes : OpenIndex(entries)
    \/ WriteAll
    \/ ReadRef
    \/ ReadIndex

SpecWriter == InitWriter /\ [][NextWriter]_vars

\* C13: a reader of a ref or of the index that runs while the file is being
\* written sees the complete content from before the write or the complete
\* new content, never an empty or partly written file.
C13_AtomicWrites ==
    last.op \in {"read_ref", "read_index"} =>
        last.seen = last.old \/ last.seen = last.new

-----------------------------------------------------------------------------
(* The size of a file in the index and in status. A size is the u64 of      *)
(* metadata.size(), written as its two 32-bit words [hi, lo]; the entry    *)
(* keeps a u32.                                                             *)

MaxSizeOps == 4
MaxHi == 1
MaxLo == 2

\* the sizes a file takes
FileSizes == [hi : 0..MaxHi, lo : 0..MaxLo]

\* metadata.size() as u32: the low 32 bits
SizeAsU32(size) == size.lo

\* IndexEntry::new: the mtime and the size the entry takes from the metadata
EntryOfMetadata(metadata) ==
    [mtime |-> metadata.mtime, size |-> SizeAsU32(metadata.size)]

\* what write_to_file and read_from_file make of the entry: the mtime in 8
\* bytes, the size in 4 bytes
EntryThroughFile(entry) ==
    [mtime |-> FromBeBytes(ToBeBytes(entry.mtime, 8)),
     size |-> FromBeBytes(ToBeBytes(entry.size, 4))]

\* metadata.mtime() as u64 != index_entry.mtime
\*     || metadata.size() as u32 != index_entry.size
EntryModified(metadata, entry) ==
    \/ metadata.mtime # entry.mtime
    \/ SizeAsU32(metadata.size) # entry.size

InitSize ==
    /\ objects = EmptyMap
    /\ voxDir = TRUE
    /\ indexFile = NoFile
    /\ head = NoFile
    /\ heads = EmptyMap
    /\ wd = [size |-> [hi |-> 0, lo |-> 0], mtime |-> 0]
    /\ now = 0
    /\ used = 0
    /\ last = [op |-> "none", modified |-> FALSE]
    /\ ix = [entry |-> <<>>, added |-> <<>>]

\* the user rewrites the file to another size
SizeWrite(size) ==
    /\ used < MaxSizeOps
    /\ wd # [size |-> size, mtime |-> now]
    /\ wd' = [size |-> size, mtime |-> now]
    /\ last' = [op |-> "write", modified |-> FALSE]
    /\ used' = used + 1
    /\ UNCHANGED <<objects, voxDir, indexFile, head, heads, now, ix>>

\* a second passes
SizeTick ==
    /\ used < MaxSizeOps
    /\ now < MaxTime
    /\ now' = now + 1
    /\ last' = [op |-> "tick", modified |-> FALSE]
    /\ used' = used + 1
    /\ UNCHANGED <<objects, voxDir, indexFile, head, heads, wd, ix>>

\* vox add of the file: the entry goes to the index file; added keeps the
\* metadata of the file at that moment
SizeAdd ==
    /\ used < MaxSizeOps
    /\ ix' = [entry |-> <<EntryThroughFile(EntryOfMetadata(wd))>>,
              added |-> <<wd>>]
    /\ last' = [op |-> "add", modified |-> FALSE]
    /\ used' = used + 1
    /\ UNCHANGED <<objects, voxDir, indexFile, head, heads, wd, now>>

\* vox status, for a file that has an entry
SizeStatus ==
    /\ used < MaxSizeOps
    /\ ix.entry # <<>>
    /\ last' = [op |-> "status", modified |-> EntryModified(wd, ix.entry[1])]
    /\ used' = used + 1
    /\ UNCHANGED <<objects, voxDir, indexFile, head, heads, wd, now, ix>>

NextSize ==
    \/ \E size \in FileSizes : SizeWrite(size)
    \/ SizeTick
    \/ SizeAdd
    \/ SizeStatus

SpecSize == InitSize /\ [][NextSize]_vars

\* C15: after add of a file, status does not list it in modified while its
\* mtime and size are those of the add, and lists it in modified whenever
\* its size differs from the size at the add, for all sizes, those above
\* 2^32 - 1 included.
C15_StatusSound ==
    (last.op = "status" /\ ix.added # <<>>) =>
        /\ (wd.mtime = ix.added[1].mtime /\ wd.size = ix.added[1].size)
                => ~last.modified
        /\ wd.size # ix.added[1].size => last.modified

-----------------------------------------------------------------------------
(* The delta codec: Delta::parse_header, parse_ops and apply_delta. Bytes   *)
(* are the integers 0..255; position counts the bytes already read.        *)

MaxBaseLen == 2
MaxOps == 2
MaxInsertLen == 2

USIZE_BITS == 64

\* cmd & (1 << i) != 0
BitSet(cmd, i) == (cmd \div (2 ^ i)) % 2 = 1

\* ((byte & 0x7F) as usize) << shift, as the set of the bits of the word
\* that are 1: a bit shifted beyond the word is lost
ShiftedBits(byte, shift) ==
    {shift + i : i \in {j \in 0..6 : BitSet(byte, j)}} \cap 0..(USIZE_BITS - 1)

RECURSIVE WordValue(_)
\* the usize whose 1 bits are given; a word of 2^30 or more, above every
\* length met here, is kept as 2^30
WordValue(bits) ==
    IF bits = {} THEN 0
    ELSE IF ~(bits \subseteq 0..29) THEN 2 ^ 30
    ELSE LET bit == CHOOSE x \in bits : TRUE IN
         2 ^ bit + WordValue(bits \ {bit})

RECURSIVE ReadSizeLoop(_, _, _, _)
\* the loop of Delta::read_size; size is the set of the 1 bits of the word
ReadSizeLoop(data, position, size, shift) ==
    IF position >= Len(data)
    THEN [ok |-> FALSE, size |-> 0, bits |-> {}, position |-> position]
    ELSE LET byte == data[position + 1]
             next == size \cup ShiftedBits(byte, shift)
         IN  IF byte < 128
             THEN [ok |-> TRUE, size |-> WordValue(next), bits |-> next,
                   position |-> position + 1]
             ELSE IF shift + 7 >= USIZE_BITS
             THEN [ok |-> FALSE, size |-> 0, bits |-> {}, position |-> position + 1]
             ELSE ReadSizeLoop(data, position + 1, next, shift + 7)

\* Delta::read_size
ReadSize(data, position) == ReadSizeLoop(data, position, {}, 0)

\* Delta::parse_header
ParseHeader(data) ==
    LET base == ReadSize(data, 0)
        result == ReadSize(data, base.position)
    IN  IF ~base.ok \/ ~result.ok
        THEN [ok |-> FALSE, base_size |-> 0, result_size |-> 0, position |-> 0]
        ELSE [ok |-> TRUE, base_size |-> base.size, result_size |-> result.size,
              position |-> result.position]

RECURSIVE ReadFlagged(_, _, _, _, _, _)
\* one of the two loops of parse_copy_op: for i in from..to, the byte that
\* flag i of cmd announces, shifted by (i - from) * 8
ReadFlagged(data, position, cmd, i, to, from) ==
    IF i >= to THEN [ok |-> TRUE, value |-> 0, position |-> position]
    ELSE IF ~BitSet(cmd, i) THEN ReadFlagged(data, position, cmd, i + 1, to, from)
    ELSE IF position >= Len(data) THEN [ok |-> FALSE, value |-> 0, position |-> position]
    ELSE LET rest == ReadFlagged(data, position + 1, cmd, i + 1, to, from) IN
         [ok |-> rest.ok,
          value |-> data[position + 1] * (2 ^ ((i - from) * 8)) + rest.value,
          position |-> rest.position]

\* Delta::parse_copy_op
ParseCopyOp(data, position, cmd) ==
    LET offset == ReadFlagged(data, position, cmd, 0, 4, 0)
        length == ReadFlagged(data, offset.position, cmd, 4, 7, 4)
    IN  IF ~offset.ok \/ ~length.ok
        THEN [ok |-> FALSE, offset |-> 0, length |-> 0, position |-> position]
        ELSE [ok |-> TRUE, offset |-> offset.value,
              length |-> IF length.value = 0 THEN 65536 ELSE length.value,
              position |-> length.position]

\* Delta::parse_insert_data
ParseInsertData(data, position, cmd) ==
    LET start == position
        end == start + cmd
    IN  IF end > Len(data) THEN [ok |-> FALSE, data |-> <<>>, position |-> position]
        ELSE [ok |-> TRUE, data |-> SubSeq(data, start + 1, end), position |-> end]

\* DeltaOp::Copy { offset, length }
CopyOp(offset, length) ==
    [kind |-> "copy", offset |-> offset, length |-> length, data |-> <<>>]

\* DeltaOp::Insert(data)
InsertOp(data) ==
    [kind |-> "insert", offset |-> 0, length |-> Len(data), data |-> data]

RECURSIVE ParseOps(_, _)
\* Delta::parse_ops, from the position the header left
ParseOps(data, position) ==
    IF position >= Len(data) THEN [ok |-> TRUE, ops |-> <<>>]
    ELSE LET cmd == data[position + 1] IN
         IF cmd >= 128
         THEN LET copy == ParseCopyOp(data, position + 1, cmd)
                  rest == ParseOps(data, copy.position)
              IN  IF ~copy.ok \/ ~rest.ok THEN [ok |-> FALSE, ops |-> <<>>]
                  ELSE [ok |-> TRUE,
                        ops |-> <<CopyOp(copy.offset, copy.length)>> \o rest.ops]
         ELSE LET insert == ParseInsertData(data, position + 1, cmd)
                  rest == ParseOps(data, insert.position)
              IN  IF ~insert.ok \/ ~rest.ok THEN [ok |-> FALSE, ops |-> <<>>]
                  ELSE [ok |-> TRUE, ops |-> <<InsertOp(insert.data)>> \o rest.ops]

\* len > declared
SizeExceeds(len, declared) == len > declared

\* base.len() != base_size, result.len() != result_size
SizeMismatch(len, declared) == len # declared

\* offset >= base.len() || end > base.len()
CopyExceedsBase(base, offset, end) == offset >= Len(base) \/ end > Len(base)

\* &base[..end - offset]
SliceFromStart(base, offset, end) == SubSeq(base, 1, end - offset)

\* &base[offset..end]
Slice(base, offset, end) == SubSeq(base, offset + 1, end)

RECURSIVE ApplyOps(_, _, _)
\* step 3 of apply_delta: the operations applied in order to result
ApplyOps(base, ops, result) ==
    IF ops = <<>> THEN [ok |-> TRUE, data |-> result]
    ELSE LET op == Head(ops) IN
         IF op.kind = "copy"
         THEN IF CopyExceedsBase(base, op.offset, op.offset + op.length)
              THEN [ok |-> FALSE, data |-> <<>>]
              ELSE ApplyOps(base, Tail(ops),
                            result \o Slice(base, op.offset, op.offset + op.length))
         ELSE ApplyOps(base, Tail(ops), result \o op.data)

DeltaError(err) == [ok |-> FALSE, err |-> err, data |-> <<>>]

\* apply_delta(base, delta)
ApplyDelta(base, delta) ==
    LET header == ParseHeader(delta)
        ops == ParseOps(delta, header.position)
        applied == ApplyOps(base, ops.ops, <<>>)
    IN  IF ~header.ok THEN DeltaError("Failed to parse delta header")
        ELSE IF SizeMismatch(Len(base), header.base_size)
        THEN DeltaError("Base size mismatch")
        ELSE IF ~ops.ok THEN DeltaError("Failed to parse delta opearations")
        ELSE IF ~applied.ok THEN DeltaError("Copy range exceeds base size")
        ELSE IF SizeMismatch(Len(applied.data), header.result_size)
        THEN DeltaError("Result size mismatch")
        ELSE [ok |-> TRUE, err |-> "", data |-> applied.data]

-----------------------------------------------------------------------------
(* reconstruct_objects of clone, for a pack of blobs and deltas *)

PACK_COMMIT == 1
PACK_TREE == 2
PACK_BLOB == 3
PACK_TAG == 4
PACK_DELTA_REF == 7

\* PackObject::Base(data, obj_type)
PackBase(data, obj_type) ==
    [kind |-> "base", data |-> data, obj_type |-> obj_type, base_hash |-> ""]

\* PackObject::Delta { base_hash, data }
PackDelta(base_hash, data) ==
    [kind |-> "delta", data |-> data, obj_type |-> PACK_DELTA_REF,
     base_hash |-> base_hash]

\* data.starts_with(prefix), the prefix given as its bytes
StartsWithBytes(data, prefix) ==
    Len(data) >= Len(prefix) /\ SubSeq(data, 1, Len(prefix)) = prefix

\* Packfile::detect_type: b"commit", b"tree", b"tag", else a blob
DetectType(data) ==
    IF StartsWithBytes(data, <<99, 111, 109, 109, 105, 116>>) THEN PACK_COMMIT
    ELSE IF StartsWithBytes(data, <<116, 114, 101, 101>>) THEN PACK_TREE
    ELSE IF StartsWithBytes(data, <<116, 97, 103>>) THEN PACK_TAG
    ELSE PACK_BLOB

\* Packfile::parse_object, the Blob arm; the packs here hold no object of
\* another type
ParseObject(obj_type, data) ==
    IF obj_type = PACK_BLOB
    THEN [ok |-> TRUE, type |-> OBJ_TYPE_BLOB, data |-> data]
    ELSE [ok |-> FALSE, type |-> "", data |-> <<>>]

ReconstructError(err) == [ok |-> FALSE, err |-> err, objects |-> EmptyMap]

RECURSIVE ReconstructBases(_, _)
\* the first loop of reconstruct_objects: hash |-> data of every Base
ReconstructBases(objs, base_objects) ==
    IF objs = <<>> THEN [ok |-> TRUE, objects |-> base_objects]
    ELSE LET obj == Head(objs)
             parsed == ParseObject(obj.obj_type, obj.data)
         IN  IF obj.kind # "base" THEN ReconstructBases(Tail(objs), base_objects)
             ELSE IF ~parsed.ok THEN [ok |-> FALSE, objects |-> EmptyMap]
             ELSE ReconstructBases(Tail(objs),
                        FsWrite(base_objects, BlobHash(parsed.data), obj.data))

RECURSIVE ReconstructDeltas(_, _, _)
\* the second loop of reconstruct_objects
ReconstructDeltas(objs, base_objects, all_objects) ==
    IF objs = <<>> THEN [ok |-> TRUE, err |-> "", objects |-> all_objects]
    ELSE LET obj == Head(objs) IN
         IF obj.kind # "delta"
         THEN ReconstructDeltas(Tail(objs), base_objects, all_objects)
         ELSE IF obj.base_hash \notin DOMAIN base_objects
         THEN ReconstructError("Missing base object")
         ELSE LET base_data == base_objects[obj.base_hash]
                  header == ParseHeader(obj.data)
                  reconstructed == ApplyDelta(base_data, obj.data)
                  parsed == ParseObject(DetectType(reconstructed.data),
                                        reconstructed.data)
              IN  IF ~header.ok THEN ReconstructError("Unexpected end of delta")
                  ELSE IF SizeMismatch(Len(base_data), header.base_size)
                  THEN ReconstructError("Base size mismatch")
                  ELSE IF ~reconstructed.ok THEN ReconstructError(reconstructed.err)
                  ELSE IF ~parsed.ok THEN ReconstructError("parse_object")
                  ELSE ReconstructDeltas(Tail(objs), base_objects,
                            FsWrite(all_objects, BlobHash(parsed.data), parsed.data))

RECURSIVE SinglePassLoop(_, _, _)
\* one loop over the pack that inserts a Base and resolves a Delta where it
\* stands
SinglePassLoop(objs, base_objects, all_objects) ==
    IF objs = <<>> THEN [ok |-> TRUE, err |-> "", objects |-> all_objects]
    ELSE LET obj == Head(objs)
             bases == ReconstructBases(<<obj>>, base_objects)
             deltas == ReconstructDeltas(<<obj>>, base_objects, all_objects)
         IN  IF obj.kind = "base"
             THEN IF ~bases.ok THEN ReconstructError("parse_object")
                  ELSE SinglePassLoop(Tail(objs), bases.objects,
                            FsWrite(all_objects, BlobHash(obj.data), obj.data))
             ELSE IF ~deltas.ok THEN deltas
             ELSE SinglePassLoop(Tail(objs), base_objects, deltas.objects)

ReconstructSinglePass(objs) == SinglePassLoop(objs, EmptyMap, EmptyMap)

\* CloneCommand::reconstruct_objects(packfile): hash |-> payload of the object
ReconstructObjects(objs) ==
    LET bases == ReconstructBases(objs, EmptyMap) IN
    IF ~bases.ok THEN ReconstructError("parse_object")
    ELSE ReconstructDeltas(objs, bases.objects, bases.objects)

-----------------------------------------------------------------------------
(* Delta programs and their byte form *)

\* "Hello, world"
BaseText == <<72, 101, 108, 108, 111, 44, 32, 119, 111, 114, 108, 100>>

\* the bases: the first bytes of the text, and the whole text
DeltaBases == {SubSeq(BaseText, 1, n) : n \in 0..MaxBaseLen} \cup {BaseText}

\* the instructions of a program
DeltaInstrs ==
    {CopyOp(offset, length) : offset \in 0..MaxBaseLen, length \in 1..(MaxBaseLen + 1)}
    \cup {InsertOp([i \in 1..n |-> 33]) : n \in 1..MaxInsertLen}

RECURSIVE SeqsUpTo(_, _)
\* the sequences over set of length at most n
SeqsUpTo(set, n) ==
    IF n = 0 THEN {<<>>}
    ELSE LET shorter == SeqsUpTo(set, n - 1) IN
         shorter \cup {Append(q, x) : q \in shorter, x \in set}

RECURSIVE OutputLength(_)
\* the number of bytes the instructions produce
OutputLength(ops) ==
    IF ops = <<>> THEN 0 ELSE Head(ops).length + OutputLength(Tail(ops))

\* a base, the instructions, and how the delta departs from a well-formed
\* one: a base_size or result_size one too large, a last literal one byte
\* short; wide chooses the longer byte form of sizes and offsets
DeltaInputs ==
    [base : DeltaBases \ {BaseText}, ops : SeqsUpTo(DeltaInstrs, MaxOps),
     bad_base : BOOLEAN, bad_result : BOOLEAN, short : BOOLEAN, wide : BOOLEAN]
    \cup [base : {BaseText}, ops : {<<CopyOp(0, 5)>>}, bad_base : BOOLEAN,
          bad_result : {FALSE}, short : {FALSE}, wide : {FALSE}]

\* a size below 128 in one byte, or in two with a continuation bit
EncodeSize(n, wide) == IF wide THEN <<128 + n, 0>> ELSE <<n>>

\* a COPY: the command byte with flag 0 for the offset byte and flag 4 for
\* the length byte, then these bytes
EncodeCopy(op, wide) ==
    IF op.offset # 0 \/ wide THEN <<128 + 16 + 1, op.offset, op.length>>
    ELSE <<128 + 16, op.length>>

\* an INSERT: the length, then the literal bytes
EncodeInsert(op) == <<Len(op.data)>> \o op.data

RECURSIVE EncodeOps(_, _)
EncodeOps(ops, wide) ==
    IF ops = <<>> THEN <<>>
    ELSE (IF Head(ops).kind = "copy" THEN EncodeCopy(Head(ops), wide)
          ELSE EncodeInsert(Head(ops)))
         \o EncodeOps(Tail(ops), wide)

\* the last instruction is an INSERT whose last literal byte is missing
IsShort(input) ==
    input.short /\ input.ops # <<>> /\ input.ops[Len(input.ops)].kind = "insert"

\* the bytes of the delta
EncodeDelta(input) ==
    LET base_size == Len(input.base) + (IF input.bad_base THEN 1 ELSE 0)
        result_size == OutputLength(input.ops) + (IF input.bad_result THEN 1 ELSE 0)
        bytes == EncodeSize(base_size, input.wide)
                 \o EncodeSize(result_size, input.wide)
                 \o EncodeOps(input.ops, input.wide)
    IN  IF IsShort(input) THEN SubSeq(bytes, 1, Len(bytes) - 1) ELSE bytes

InitDelta ==
    /\ objects = EmptyMap
    /\ voxDir = TRUE
    /\ indexFile = NoFile
    /\ head = NoFile
    /\ heads = EmptyMap
    /\ wd = EmptyMap
    /\ now = 0
    /\ used = 0
    /\ ix \in DeltaInputs
    /\ last = [op |-> "none"]

\* apply_delta(base, delta)
DeltaApply(input) ==
    /\ used = 0
    /\ used' = 1
    /\ last' = [op |-> "apply_delta", input |-> input,
                delta |-> EncodeDelta(input),
                ret |-> ApplyDelta(input.base, EncodeDelta(input))]
    /\ UNCHANGED <<objects, voxDir, indexFile, head, heads, wd, now, ix>>

\* reconstruct_objects of a pack with the base as a blob and the delta
DeltaReconstruct(input) ==
    /\ used = 0
    /\ used' = 1
    /\ last' = [op |-> "reconstruct_objects", input |-> input,
                delta |-> EncodeDelta(input),
                ret |-> ReconstructObjects(
                            <<PackBase(input.base, PACK_BLOB),
                              PackDelta(BlobHash(input.base), EncodeDelta(input))>>)]
    /\ UNCHANGED <<objects, voxDir, indexFile, head, heads, wd, now, ix>>

NextDelta ==
    \/ DeltaApply(ix)
    \/ DeltaReconstruct(ix)

SpecDelta == InitDelta /\ [][NextDelta]_vars

\* the bytes the instructions stand for: B[offset, offset + length) for a
\* COPY, the literal bytes for an INSERT
RECURSIVE Concatenation(_, _)
Concatenation(base, ops) ==
    IF ops = <<>> THEN <<>>
    ELSE (IF Head(ops).kind = "copy"
          THEN [i \in 1..Head(ops).length |-> base[Head(ops).offset + i]]
          ELSE Head(ops).data)
         \o Concatenation(base, Tail(ops))

\* every COPY range lies inside the base
CopiesInside(input) ==
    \A i \in 1..Len(input.ops) :
        input.ops[i].kind = "copy" =>
            input.ops[i].offset + input.ops[i].length <= Len(input.base)

WellFormed(input) ==
    ~input.bad_base /\ ~input.bad_result /\ ~IsShort(input) /\ CopiesInside(input)

\* C16: for a base B and a well-formed delta whose base_size is |B| and whose
\* COPY ranges lie inside B, apply_delta returns the concatenation, in
\* instruction order, of B[offset, offset + length) for each COPY and of the
\* literal bytes for each INSERT, and the result has the declared
\* result_size; "Hello, world" with 0C 05 90 05 gives "Hello".
C16_DeltaCorrect ==
    (last.op = "apply_delta" /\ WellFormed(last.input)) =>
        /\ last.ret.ok
        /\ last.ret.data = Concatenation(last.input.base, last.input.ops)
        /\ Len(last.ret.data) = ParseHeader(last.delta).result_size
        /\ (last.input.base = BaseText /\ last.delta = <<12, 5, 144, 5>>)
                => last.ret.data = <<72, 101, 108, 108, 111>>

C16_Witness ==
    /\ last.op = "apply_delta"
    /\ last.input.base = BaseText
    /\ last.delta = <<12, 5, 144, 5>>
    /\ last.ret.ok
    /\ last.ret.data = <<72, 101, 108, 108, 111>>

-----------------------------------------------------------------------------
(* The packfile: Packfile::serialize and Packfile::deserialize. A payload  *)
(* is a sequence of tokens; the token BLOCK stands for a run of BLOCK_LEN  *)
(* bytes that zlib does not shrink, every other token for one byte.        *)

MaxPackObjects == 2

U24_MAX == 16777215
BLOCK_LEN == 16777214
BLOCK == "<block>"

VOXPACK == <<"V", "O", "X", "P", "A", "C", "K">>

RECURSIVE ByteLen(_)
\* bytes.len()
ByteLen(bytes) ==
    IF bytes = <<>> THEN 0
    ELSE (IF Head(bytes) = BLOCK THEN BLOCK_LEN ELSE 1) + ByteLen(Tail(bytes))

\* Packfile::new with the given objects
NewPackfile(objs) == [objects |-> objs, index |-> EmptyMap]

\* what serialize compresses for an object: the data, for a Base and for a
\* Delta alike
PackContent(obj) == obj.data

\* header.write_u8((type_code << 4) | 0x80)
PackTypeByte(type_code) == ((type_code * 16) % 256) + 128

\* (first_byte >> 4) & 0x07
PackTypeCode(first_byte) == (first_byte \div 16) % 8

RECURSIVE SerializeFrames(_, _, _)
\* the loop of serialize: the frames and the index; write_u24 of byteorder
\* asserts that the size fits in three bytes and panics otherwise
SerializeFrames(objs, offset, index) ==
    IF objs = <<>> THEN [ok |-> TRUE, bytes |-> <<>>, index |-> index]
    ELSE LET obj == Head(objs)
             content == PackContent(obj)
             compressed == ZlibCompress(content)
             size == ByteLen(compressed)
             header == <<PackTypeByte(obj.obj_type)>> \o ToBeBytes(size, 3)
             rest == SerializeFrames(Tail(objs), offset + 4 + size,
                        FsWrite(index, Sha1(content),
                                [offset |-> offset, size |-> size,
                                 type_code |-> obj.obj_type]))
         IN  IF size > U24_MAX \/ ~rest.ok
             THEN [ok |-> FALSE, bytes |-> <<>>, index |-> EmptyMap]
             ELSE [ok |-> TRUE, bytes |-> header \o compressed \o rest.bytes,
                   index |-> rest.index]

\* Packfile::serialize
PackSerialize(pack) ==
    LET frames == SerializeFrames(pack.objects, 12, pack.index) IN
    IF ~frames.ok THEN [ok |-> FALSE, bytes |-> <<>>, index |-> pack.index]
    ELSE [ok |-> TRUE,
          bytes |-> VOXPACK \o ToBeBytes(Len(pack.objects), 4) \o frames.bytes,
          index |-> frames.index]

RECURSIVE TakeBytes(_, _, _)
\* cursor.read_exact of n bytes from position: the index of the last token
\* read, or 0 when the data ends before or the n bytes end inside a block
TakeBytes(data, position, n) ==
    IF n = 0 THEN position
    ELSE IF position >= Len(data) THEN 0
    ELSE LET len == IF data[position + 1] = BLOCK THEN BLOCK_LEN ELSE 1 IN
         IF len > n THEN 0
         ELSE IF len = n THEN position + 1
         ELSE TakeBytes(data, position + 1, n - len)

PackError == [ok |-> FALSE, objects |-> <<>>, index |-> EmptyMap]

RECURSIVE DeserializeFrames(_, _, _, _, _, _)
\* the loop of deserialize
DeserializeFrames(data, position, count, offset, objs, index) ==
    IF count = 0 THEN [ok |-> TRUE, objects |-> objs, index |-> index]
    ELSE IF position + 4 > Len(data) THEN PackError
    ELSE LET first_byte == data[position + 1]
             type_code == PackTypeCode(first_byte)
             compressed_size == FromBeBytes(SubSeq(data, position + 2, position + 4))
             stop == IF compressed_size = 0 THEN position + 4
                     ELSE TakeBytes(data, position + 4, compressed_size)
             compressed == SubSeq(data, position + 5, stop)
             decompressed == ZlibDecompress(compressed)
             split == TakeBytes(decompressed, 0, 20)
             obj == IF type_code = PACK_DELTA_REF
                    THEN PackDelta(Sha1(SubSeq(decompressed, 1, split)),
                                   SubSeq(decompressed, split + 1, Len(decompressed)))
                    ELSE PackBase(decompressed, type_code)
         IN  IF stop = 0 \/ ~IsZlib(compressed) THEN PackError
             ELSE IF type_code \notin {PACK_COMMIT, PACK_TREE, PACK_BLOB, PACK_TAG,
                                       PACK_DELTA_REF}
             THEN PackError
             ELSE IF type_code = PACK_DELTA_REF /\ split = 0 THEN PackError
             ELSE DeserializeFrames(data, stop, count - 1,
                        offset + 4 + compressed_size, Append(objs, obj),
                        FsWrite(index, Sha1(obj.data),
                                [offset |-> offset, size |-> compressed_size,
                                 type_code |-> type_code]))

\* Packfile::deserialize
PackDeserialize(data) ==
    IF Len(data) < 7 \/ SubSeq(data, 1, 7) # VOXPACK THEN PackError
    ELSE IF Len(data) < 11 THEN PackError
    ELSE DeserializeFrames(data, 11, FromBeBytes(SubSeq(data, 8, 11)), 12,
                           <<>>, EmptyMap)

\* the payloads of the objects of a pack
PackPayloads == {<<>>, <<"x">>, <<"x", "y">>, <<BLOCK>>, <<"x", BLOCK>>}

\* the Base objects add_object makes
PackBases ==
    {PackBase(data, obj_type) :
        data \in PackPayloads,
        obj_type \in {PACK_COMMIT, PACK_TREE, PACK_BLOB, PACK_TAG}}

InitPack ==
    /\ objects = EmptyMap
    /\ voxDir = TRUE
    /\ indexFile = NoFile
    /\ head = NoFile
    /\ heads = EmptyMap
    /\ wd = EmptyMap
    /\ now = 0
    /\ used = 0
    /\ ix \in {NewPackfile(objs) : objs \in SeqsUpTo(PackBases, MaxPackObjects)}
    /\ last = [op |-> "none", ok |-> TRUE, bytes |-> <<>>, objects |-> <<>>]

\* p.serialize()
PackWrite ==
    /\ used = 0
    /\ used' = 1
    /\ LET r == PackSerialize(ix) IN
        /\ ix' = [ix EXCEPT !.index = r.index]
        /\ last' = [op |-> "serialize", ok |-> r.ok, bytes |-> r.bytes,
                    objects |-> <<>>]
    /\ UNCHANGED <<objects, voxDir, indexFile, head, heads, wd, now>>

\* Packfile::deserialize of the bytes serialize returned
PackRead ==
    /\ used = 1
    /\ last.op = "serialize"
    /\ last.ok
    /\ used' = 2
    /\ LET r == PackDeserialize(last.bytes) IN
        last' = [op |-> "deserialize", ok |-> r.ok, bytes |-> last.bytes,
                 objects |-> r.objects]
    /\ UNCHANGED <<objects, voxDir, indexFile, head, heads, wd, now, ix>>

NextPack ==
    \/ PackWrite
    \/ PackRead

SpecPack == InitPack /\ [][NextPack]_vars

\* C18: for a Packfile that holds only Base objects, serialize returns bytes
\* from which deserialize returns the same objects, each with its type code
\* and its payload, in the same order.
C18_PackRoundTrip ==
    /\ last.op = "serialize" => last.ok
    /\ last.op = "deserialize" => (last.ok /\ last.objects = ix.objects)

-----------------------------------------------------------------------------
(* save_objects of clone: the reconstructed objects written to the store   *)
(* of the new repository, and the loads that follow                        *)

MaxCloned == 2

\* an Object with what VoxObject gives for it: object_type, serialize, hash
ClonedObject(type, payload) ==
    [type |-> type, payload |-> payload, hash |-> Sha1(payload)]

\* the objects a pack can bring
ClonedObjects ==
    {ClonedObject(OBJ_TYPE_BLOB, BlobSerialize(data)) : data \in BaseData}
    \cup {ClonedObject(OBJ_TYPE_COMMIT, CommitSerialize(c)) : c \in StoreCommits}
    \cup {ClonedObject(OBJ_TYPE_TREE, TreeSerialize(t)) : t \in StoreTrees}
    \cup {ClonedObject(OBJ_TYPE_TAG, TagSerialize(t)) : t \in StoreTags}

\* the subsets of set with at most n elements
SubsetsUpTo(set, n) == {sub \in SUBSET set : Cardinality(sub) <= n}

\* CloneCommand::save_objects: for every object,
\* fs::write(dir.join(obj.object_path()), obj.serialize())
SaveObjects(store, objs) ==
    [k \in (DOMAIN store) \cup {obj.hash : obj \in objs} |->
        IF \E obj \in objs : obj.hash = k
        THEN (CHOOSE obj \in objs : obj.hash = k).payload
        ELSE store[k]]

\* the result of the loader of the object's type
LoadOk(store, obj) ==
    IF obj.type = OBJ_TYPE_BLOB THEN BlobLoad(store, obj.hash).ok
    ELSE IF obj.type = OBJ_TYPE_COMMIT THEN CommitLoad(store, obj.hash).ok
    ELSE ReadTree(store, obj.hash).ok

InitClone ==
    /\ objects = EmptyMap
    /\ voxDir = TRUE
    /\ indexFile = NoFile
    /\ head = NoFile
    /\ heads = EmptyMap
    /\ wd = EmptyMap
    /\ now = 0
    /\ used = 0
    /\ ix \in SubsetsUpTo(ClonedObjects, MaxCloned)
    /\ last = [op |-> "none", hash |-> "", ok |-> TRUE]

\* self.save_objects(&repo, &objects)
CloneSave ==
    /\ used = 0
    /\ used' = 1
    /\ objects' = SaveObjects(objects, ix)
    /\ last' = [op |-> "save_objects", hash |-> "", ok |-> TRUE]
    /\ UNCHANGED <<voxDir, indexFile, head, heads, wd, now, ix>>

\* Blob::load, Commit::load or read_tree of an object the clone wrote
CloneLoad(obj) ==
    /\ used = 1
    /\ used' = 2
    /\ obj.type # OBJ_TYPE_TAG
    /\ last' = [op |-> "load", hash |-> obj.hash, ok |-> LoadOk(objects, obj)]
    /\ UNCHANGED <<objects, voxDir, indexFile, head, heads, wd, now, ix>>

NextClone ==
    \/ CloneSave
    \/ \E obj \in ix : CloneLoad(obj)

SpecClone == InitClone /\ [][NextClone]_vars

\* the file is the zlib compression of "<type> <length>\0" and a payload of
\* that length
IsStoredObject(file) ==
    /\ IsZlib(file)
    /\ Len(ZlibDecompress(file)) >= 3
    /\ ZlibDecompress(file)[1] \in
            {OBJ_TYPE_BLOB, OBJ_TYPE_COMMIT, OBJ_TYPE_TREE, OBJ_TYPE_TAG}
    /\ ZlibDecompress(file)[3] = NUL
    /\ ZlibDecompress(file)[2] = ToString(Len(ZlibDecompress(file)) - 3)

\* C19: every file under objects/ is the zlib compression of header ||
\* payload, those that clone's save_objects writes included, and every
\* object the clone wrote is read back by Commit::load, read_tree or
\* Blob::load.
C19_StoredObjects ==
    /\ \A k \in DOMAIN objects : IsStoredObject(objects[k])
    /\ last.op = "load" => last.ok

-----------------------------------------------------------------------------
(* Loading an object file: Blob::load, Commit::load, read_tree, Tag::load *)

\* the e-mail part of a tagger line, "<...>"
EmailWords == {"<me@x>"}

\* Tag::parse_identity on the words after "tagger": the regex
\* ^(.*) <(.*?)> (\d+) ([\+\-]\d{4})$
ParseIdentity(words) ==
    /\ Len(words) >= 3
    /\ words[Len(words) - 2] \in EmailWords
    /\ IsI64(words[Len(words) - 1])
    /\ words[Len(words)] \in {"+0000"}

NoTag ==
    [ok |-> TRUE, reading |-> FALSE, object |-> <<>>, object_type |-> <<>>,
     tag |-> <<>>, tagger |-> <<>>]

RECURSIVE TagParseLoop(_, _)
\* the loop of Tag::parse over the lines
TagParseLoop(lines, st) ==
    IF lines = <<>> \/ ~st.ok THEN st
    ELSE
    LET line == Head(lines) IN
    IF st.reading THEN TagParseLoop(Tail(lines), st)
    ELSE IF line = <<>> THEN TagParseLoop(Tail(lines), [st EXCEPT !.reading = TRUE])
    ELSE IF Len(line) < 2 THEN TagParseLoop(Tail(lines), st)
    ELSE IF line[1] = "object"
    THEN TagParseLoop(Tail(lines), [st EXCEPT !.object = <<Words(Tail(line))>>])
    ELSE IF line[1] = "type"
    THEN TagParseLoop(Tail(lines), [st EXCEPT !.object_type = <<Words(Tail(line))>>])
    ELSE IF line[1] = "tag"
    THEN TagParseLoop(Tail(lines), [st EXCEPT !.tag = <<Words(Tail(line))>>])
    ELSE IF line[1] = "tagger"
    THEN IF ~ParseIdentity(Tail(line)) THEN [st EXCEPT !.ok = FALSE]
         ELSE TagParseLoop(Tail(lines), [st EXCEPT !.tagger = <<Tail(line)>>])
    ELSE TagParseLoop(Tail(lines), st)

\* Tag::parse: every one of object, type, tag and tagger must be there
TagParse(content) ==
    LET st == TagParseLoop(SplitLines(content, <<>>, <<>>), NoTag) IN
    /\ st.ok
    /\ st.object # <<>>
    /\ st.object_type # <<>>
    /\ st.tag # <<>>
    /\ st.tagger # <<>>

\* Tag::load
TagLoad(store, hash) ==
    IF hash \notin DOMAIN store \/ ~IsZlib(store[hash]) THEN [ok |-> FALSE]
    ELSE IF NullPos(ZlibDecompress(store[hash])) = 0 THEN [ok |-> FALSE]
    ELSE [ok |-> TagParse(AfterNull(ZlibDecompress(store[hash])))]

\* the object files to load: a payload, the loader for it, and the header
\* the file has in front of it
LoadInputs ==
    [type : {OBJ_TYPE_BLOB}, payload : BaseData,
     header : {"good", "no_nul", "no_length", "not_decimal", "wrong_length"}]
    \cup [type : {OBJ_TYPE_COMMIT},
          payload : {CommitSerialize(c) : c \in StoreCommits},
          header : {"good", "no_nul", "no_length", "not_decimal", "wrong_length"}]
    \cup [type : {OBJ_TYPE_TAG},
          payload : {TagSerialize(t) : t \in StoreTags},
          header : {"good", "no_nul", "no_length", "not_decimal", "wrong_length"}]
    \cup [type : {OBJ_TYPE_TREE},
          payload : {TreeSerialize(t) : t \in StoreTrees},
          header : {"good", "no_length", "not_decimal", "wrong_length"}]
    \cup [type : {OBJ_TYPE_TREE}, payload : {TreeSerialize(<<>>)},
          header : {"no_nul"}]

\* the decompressed bytes of the file
LoadFileData(input) ==
    (IF input.header = "good" THEN Header(input.type, Len(input.payload))
     ELSE IF input.header = "no_nul"
     THEN <<input.type, ToString(Len(input.payload))>>
     ELSE IF input.header = "no_length" THEN <<input.type, NUL>>
     ELSE IF input.header = "not_decimal" THEN <<input.type, "abc", NUL>>
     ELSE Header(input.type, Len(input.payload) + 1))
    \o input.payload

\* where the file of the input lies
LoadHash == "h"

InitLoad ==
    /\ \E input \in LoadInputs :
        /\ ix = input
        /\ objects = FsWrite(EmptyMap, LoadHash, ZlibCompress(LoadFileData(input)))
    /\ voxDir = TRUE
    /\ indexFile = NoFile
    /\ head = NoFile
    /\ heads = EmptyMap
    /\ wd = EmptyMap
    /\ now = 0
    /\ used = 0
    /\ last = [op |-> "none", ok |-> TRUE]

\* Blob::load(hash, objects_dir)
LoadBlob ==
    /\ used = 0
    /\ ix.type = OBJ_TYPE_BLOB
    /\ used' = 1
    /\ last' = [op |-> "load", ok |-> BlobLoad(objects, LoadHash).ok]
    /\ UNCHANGED <<objects, voxDir, indexFile, head, heads, wd, now, ix>>

\* Commit::load(hash, objects_dir)
LoadCommit ==
    /\ used = 0
    /\ ix.type = OBJ_TYPE_COMMIT
    /\ used' = 1
    /\ last' = [op |-> "load", ok |-> CommitLoad(objects, LoadHash).ok]
    /\ UNCHANGED <<objects, voxDir, indexFile, head, heads, wd, now, ix>>

\* read_tree(hash, objects_dir)
LoadTree ==
    /\ used = 0
    /\ ix.type = OBJ_TYPE_TREE
    /\ used' = 1
    /\ last' = [op |-> "load", ok |-> ReadTree(objects, LoadHash).ok]
    /\ UNCHANGED <<objects, voxDir, indexFile, head, heads, wd, now, ix>>

\* Tag::load(hash, objects_dir)
LoadTag ==
    /\ used = 0
    /\ ix.type = OBJ_TYPE_TAG
    /\ used' = 1
    /\ last' = [op |-> "load", ok |-> TagLoad(objects, LoadHash).ok]
    /\ UNCHANGED <<objects, voxDir, indexFile, head, heads, wd, now, ix>>

NextLoad ==
    \/ LoadBlob
    \/ LoadCommit
    \/ LoadTree
    \/ LoadTag

SpecLoad == InitLoad /\ [][NextLoad]_vars

\* C20: loading an object fails when the decompressed data has no NUL, when
\* the header is not "<type> <decimal-length>", and when the length of the
\* payload is not the length the header declares.
C20_LoadRejects ==
    (last.op = "load" /\ ix.header # "good") => ~last.ok

-----------------------------------------------------------------------------
(* Commit payloads: Commit::parse, Commit::serialize, save and load *)

\* the timezone that follows the timestamp of the author line ("" for none)
Zones == {"", "+0000", "-0500"}

\* the commits whose text is parsed
TextCommits ==
    [tree : {"t1", "t2"}, parent : {<<>>, <<"p1">>}, author : {"Me", "Ann"},
     timestamp : 1..MaxStamp, message : {"m", "fix"}]

\* the payload of a commit with the zone after the timestamp
ZonedPayload(c, zone) ==
    <<"tree", c.tree, LF>>
    \o (IF c.parent # <<>> THEN <<"parent", c.parent[1], LF>> ELSE <<>>)
    \o <<"author", c.author, ToString(c.timestamp)>>
    \o (IF zone # "" THEN <<zone>> ELSE <<>>)
    \o <<LF, LF, c.message, LF>>

InitText ==
    /\ ix \in [commit : TextCommits, zone : Zones]
    /\ objects = EmptyMap
    /\ voxDir = TRUE
    /\ indexFile = NoFile
    /\ head = NoFile
    /\ heads = EmptyMap
    /\ wd = EmptyMap
    /\ now = 0
    /\ used = 0
    /\ last = [op |-> "none", ok |-> TRUE, commit |-> <<>>, bytes |-> <<>>]

\* Commit::parse(payload), then serialize() of the commit it returned
TextParse ==
    /\ used = 0
    /\ used' = 1
    /\ LET parsed == CommitParse(ZonedPayload(ix.commit, ix.zone)) IN
       last' = [op |-> "parse", ok |-> parsed.ok, commit |-> parsed.commit,
                bytes |-> IF parsed.ok THEN CommitSerialize(parsed.commit)
                          ELSE <<>>]
    /\ UNCHANGED <<objects, voxDir, indexFile, head, heads, wd, now, ix>>

\* commit.save(objects_dir), then Commit::load(hash, objects_dir)
TextSaveLoad ==
    /\ used = 0
    /\ used' = 1
    /\ objects' = CommitSave(objects, ix.commit)
    /\ LET loaded == CommitLoad(objects', CommitHash(ix.commit)) IN
       last' = [op |-> "save_load", ok |-> loaded.ok, commit |-> loaded.commit,
                bytes |-> <<>>]
    /\ UNCHANGED <<voxDir, indexFile, head, heads, wd, now, ix>>

NextText ==
    \/ TextParse
    \/ TextSaveLoad

SpecText == InitText /\ [][NextText]_vars

\* C21: Commit::parse takes the timestamp from the unix-seconds token of the
\* author line and the author from the text before it, with and without a
\* timezone after the timestamp; a payload with a timezone is reproduced byte
\* for byte by serialize(parse(payload)); save followed by load returns the
\* same tree, parent, author and message.
C21_CommitTextRoundTrip ==
    /\ last.op = "parse" =>
        /\ last.ok
        /\ last.commit.timestamp = ix.commit.timestamp
        /\ last.commit.author = ix.commit.author
        /\ ix.zone # "" => last.bytes = ZonedPayload(ix.commit, ix.zone)
    /\ last.op = "save_load" =>
        /\ last.ok
        /\ last.commit.tree = ix.commit.tree
        /\ last.commit.parent = ix.commit.parent
        /\ last.commit.author = ix.commit.author
        /\ last.commit.message = ix.commit.message

-----------------------------------------------------------------------------
(* vox log: log_command after commits on the current branch *)

\* the most commits made, and the largest limit given to log
MaxCommits == 3
MaxLimit == 3

RECURSIVE LogLoop(_, _, _, _, _)
\* the while loop of log_command: the hashes printed, in order
LogLoop(store, current, shown, count, visited) ==
    IF current = <<>> THEN [ok |-> TRUE, visited |-> visited]
    ELSE IF shown >= count THEN [ok |-> TRUE, visited |-> visited]
    ELSE LET loaded == CommitLoad(store, current[1]) IN
         IF ~loaded.ok THEN [ok |-> FALSE, visited |-> visited]
         ELSE LogLoop(store, loaded.commit.parent, shown + 1, count,
                      Append(visited, current[1]))

\* log_command(count)
LogCommand(store, h, refs, count) ==
    IF h = NoFile THEN [ok |-> FALSE, visited |-> <<>>]
    ELSE LogLoop(store, GetCurrentCommit(h, refs), 0, count, <<>>)

\* what the user writes into the file a between the commits
LogFileData(store) == {<<"x">>, <<"y">>} \cup CommitTexts(store)

\* the repository after `vox init`, with one file in the working directory;
\* ix lists the hashes of the successful commits, oldest first
InitLog ==
    /\ objects = EmptyMap
    /\ voxDir = TRUE
    /\ indexFile = InitCommand(EmptyMap).indexFile
    /\ head = InitCommand(EmptyMap).head
    /\ heads = EmptyMap
    /\ wd = FsWrite(EmptyMap, <<"a">>, [data |-> <<"x">>, mtime |-> 0])
    /\ now = 0
    /\ used = 0
    /\ ix = <<>>
    /\ last = [op |-> "none", ok |-> TRUE, limit |-> 0, visited |-> <<>>]

\* the user writes the file a
LogWriteFile(data) ==
    /\ wd[<<"a">>].data # data
    /\ wd' = FsWrite(wd, <<"a">>, [data |-> data, mtime |-> now])
    /\ last' = [op |-> "write", ok |-> TRUE, limit |-> 0, visited |-> <<>>]
    /\ UNCHANGED <<objects, voxDir, indexFile, head, heads, now, ix, used>>

\* vox commit -m m
LogCommit(fault) ==
    /\ Len(ix) < MaxCommits
    /\ LET r == CommitCommand(voxDir, wd, objects, indexFile, head, heads, now,
                              "m", DefaultAuthor, fault)
       IN
        /\ objects' = r.objects
        /\ indexFile' = r.indexFile
        /\ head' = r.head
        /\ heads' = r.heads
        /\ ix' = IF r.ok THEN Append(ix, r.made) ELSE ix
        /\ last' = [op |-> "commit", ok |-> r.ok, limit |-> 0, visited |-> <<>>]
    /\ UNCHANGED <<voxDir, wd, now, used>>

\* vox log -n <count>
LogRun(count) ==
    /\ LET r == LogCommand(objects, head, heads, count) IN
        last' = [op |-> "log", ok |-> r.ok, limit |-> count,
                 visited |-> r.visited]
    /\ UNCHANGED <<objects, voxDir, indexFile, head, heads, wd, now, ix, used>>

NextLog ==
    \/ \E data \in LogFileData(objects) : LogWriteFile(data)
    \/ \E fault \in {"none", "commit_write"} : LogCommit(fault)
    \/ \E count \in 0..MaxLimit : LogRun(count)

SpecLog == InitLog /\ [][NextLog]_vars

\* the smaller of two numbers
Min(a, b) == IF a <= b THEN a ELSE b

\* C22: after k successful commits on the current branch, log_command(limit)
\* succeeds and visits exactly min(k, limit) commits: the newest commit first,
\* then the commit made before it, and so on.
C22_LogVisits ==
    last.op = "log" =>
        /\ last.ok
        /\ Len(last.visited) = Min(Len(ix), last.limit)
        /\ \A i \in 1..Len(last.visited) :
                last.visited[i] = ix[Len(ix) + 1 - i]

-----------------------------------------------------------------------------
(* vox branch: creating and deleting branches around a checkout *)

\* the names given to `vox branch`: a branch name, or the same name spelled
\* with a leading "./"
BranchArgs == BranchNames \cup {"./main", "./dev"}

\* the working directory of the repository
BranchFiles == FsWrite(EmptyMap, <<"a">>, [data |-> <<"x">>, mtime |-> 0])

\* `vox init` and one `vox commit -m m` in that directory
FirstCommit ==
    CommitCommand(TRUE, BranchFiles, EmptyMap, InitCommand(EmptyMap).indexFile,
                  InitCommand(EmptyMap).head, EmptyMap, 0, "m", DefaultAuthor,
                  "none")

InitBranch ==
    /\ objects = FirstCommit.objects
    /\ voxDir = TRUE
    /\ indexFile = FirstCommit.indexFile
    /\ head = FirstCommit.head
    /\ heads = FirstCommit.heads
    /\ wd = BranchFiles
    /\ now = 0
    /\ used = 0
    /\ ix = <<>>
    /\ last = [op |-> "none", ok |-> TRUE, name |-> "",
               pre |-> [head |-> NoFile, heads |-> EmptyMap]]

\* vox branch <name>
BranchNew(name) ==
    /\ LET r == BranchCreate(head, heads, name) IN
        /\ heads' = r.heads
        /\ last' = [op |-> "create", ok |-> r.ok, name |-> name,
                    pre |-> [head |-> head, heads |-> heads]]
    /\ UNCHANGED <<objects, voxDir, indexFile, head, wd, now, ix, used>>

\* vox branch -d <name>
BranchDrop(name) ==
    /\ LET r == BranchDelete(head, heads, name) IN
        /\ heads' = r.heads
        /\ last' = [op |-> "delete", ok |-> r.ok, name |-> name,
                    pre |-> [head |-> head, heads |-> heads]]
    /\ UNCHANGED <<objects, voxDir, indexFile, head, wd, now, ix, used>>

\* vox checkout [--force] <branch>
BranchSwitch(target, force) ==
    /\ LET r == CheckoutCommand(wd, objects, indexFile, head, heads, now,
                                target, force, {})
       IN
        /\ wd' = r.wd
        /\ head' = r.head
        /\ last' = [op |-> "checkout", ok |-> r.ok, name |-> target,
                    pre |-> [head |-> head, heads |-> heads]]
    /\ UNCHANGED <<objects, voxDir, indexFile, heads, now, ix, used>>

NextBranch ==
    \/ \E name \in BranchArgs : BranchNew(name)
    \/ \E name \in BranchArgs : BranchDrop(name)
    \/ \E target \in BranchNames : \E force \in BOOLEAN :
            BranchSwitch(target, force)

SpecBranch == InitBranch /\ [][NextBranch]_vars

\* the branches HEAD is attached to (none when detached)
AttachedTo(h) == IF IsAttached(h) THEN {HeadBranch(h)} ELSE {}

\* C23: Branch::delete never removes the branch HEAD is attached to.  It
\* fails and leaves refs/heads unchanged when the name is the current branch
\* or no such branch exists; otherwise it removes that branch's ref file and
\* no other.
C23_DeleteKeepsCurrent ==
    last.op = "delete" =>
        /\ \A b \in AttachedTo(last.pre.head) :
                b \in DOMAIN last.pre.heads => b \in DOMAIN heads
        /\ IF \/ RefFile(last.name) \in AttachedTo(last.pre.head)
              \/ RefFile(last.name) \notin DOMAIN last.pre.heads
           THEN ~last.ok /\ heads = last.pre.heads
           ELSE /\ last.ok
                /\ DOMAIN heads = (DOMAIN last.pre.heads) \ {RefFile(last.name)}
                /\ \A b \in DOMAIN heads : heads[b] = last.pre.heads[b]

-----------------------------------------------------------------------------
(* The remotes of a Config: add_remote, remove_remote, rename_remote *)

\* the most remotes a Config holds
MaxRemotes == 3

RemoteNames == {"origin", "upstream", "fork"}

\* the texts given as a URL: three URLs, another spelling of the first one,
\* and a text that is no URL
UrlTexts == {"https://h/a", "https://h/b", "https://h/c", "HTTPS://H/a", "h/a"}

\* Url::parse(url): the parsed URL, scheme and host in lower case, or an error
UrlParse(url) ==
    IF url = "h/a" THEN [ok |-> FALSE, url |-> ""]
    ELSE IF url = "HTTPS://H/a" THEN [ok |-> TRUE, url |-> "https://h/a"]
    ELSE [ok |-> TRUE, url |-> url]

NameExists(remotes, name, url_obj) ==
    \E i \in 1..Len(remotes) : remotes[i].name = name

\* self.remotes.iter().any(|r| r.name == name || r.url() == Some(&url_obj))
AlreadyExists(remotes, name, url_obj) ==
    \E i \in 1..Len(remotes) :
        remotes[i].name = name \/ remotes[i].url = url_obj

\* Config::add_remote(name, url, workdir)
ConfigAddRemote(remotes, name, url) ==
    LET parsed == UrlParse(url) IN
    IF ~parsed.ok THEN [ok |-> FALSE, remotes |-> remotes]
    ELSE IF AlreadyExists(remotes, name, parsed.url)
    THEN [ok |-> FALSE, remotes |-> remotes]
    ELSE [ok |-> TRUE,
          remotes |-> Append(remotes, [name |-> name, url |-> parsed.url])]

\* Config::remove_remote(name)
ConfigRemoveRemote(remotes, name) ==
    LET kept == SelectSeq(remotes, LAMBDA r : r.name # name) IN
    IF Len(kept) = Len(remotes) THEN [ok |-> FALSE, remotes |-> kept]
    ELSE [ok |-> TRUE, remotes |-> kept]

\* Config::rename_remote(old_name, new_name)
ConfigRenameRemote(remotes, old_name, new_name) ==
    IF \E i \in 1..Len(remotes) : remotes[i].name = new_name
    THEN [ok |-> FALSE, remotes |-> remotes]
    ELSE IF \E i \in 1..Len(remotes) : remotes[i].name = old_name
    THEN LET found == CHOOSE i \in 1..Len(remotes) :
                        /\ remotes[i].name = old_name
                        /\ \A j \in 1..(i - 1) : remotes[j].name # old_name
         IN [ok |-> TRUE,
             remotes |-> [remotes EXCEPT ![found].name = new_name]]
    ELSE [ok |-> FALSE, remotes |-> remotes]

\* Config::default(): no remotes; ix holds the list of remotes
InitRemotes ==
    /\ ix = <<>>
    /\ objects = EmptyMap
    /\ voxDir = TRUE
    /\ indexFile = NoFile
    /\ head = NoFile
    /\ heads = EmptyMap
    /\ wd = EmptyMap
    /\ now = 0
    /\ used = 0
    /\ last = [op |-> "none", ok |-> TRUE, name |-> "", url |-> "",
               new_name |-> "", pre |-> <<>>]

AddRemote(name, url) ==
    /\ Len(ix) < MaxRemotes
    /\ LET r == ConfigAddRemote(ix, name, url) IN
        /\ ix' = r.remotes
        /\ last' = [op |-> "add", ok |-> r.ok, name |-> name, url |-> url,
                    new_name |-> "", pre |-> ix]
    /\ UNCHANGED <<objects, voxDir, indexFile, head, heads, wd, now, used>>

RemoveRemote(name) ==
    /\ LET r == ConfigRemoveRemote(ix, name) IN
        /\ ix' = r.remotes
        /\ last' = [op |-> "remove", ok |-> r.ok, name |-> name, url |-> "",
                    new_name |-> "", pre |-> ix]
    /\ UNCHANGED <<objects, voxDir, indexFile, head, heads, wd, now, used>>

RenameRemote(old_name, new_name) ==
    /\ LET r == ConfigRenameRemote(ix, old_name, new_name) IN
        /\ ix' = r.remotes
        /\ last' = [op |-> "rename", ok |-> r.ok, name |-> old_name,
                    url |-> "", new_name |-> new_name, pre |-> ix]
    /\ UNCHANGED <<objects, voxDir, indexFile, head, heads, wd, now, used>>

NextRemotes ==
    \/ \E name \in RemoteNames : \E url \in UrlTexts : AddRemote(name, url)
    \/ \E name \in RemoteNames : RemoveRemote(name)
    \/ \E old_name \in RemoteNames : \E new_name \in RemoteNames :
            RenameRemote(old_name, new_name)

SpecRemotes == InitRemotes /\ [][NextRemotes]_vars

\* the names and the URLs of a list of remotes
NamesOf(remotes) == {remotes[i].name : i \in 1..Len(remotes)}
UrlsOf(remotes) == {remotes[i].url : i \in 1..Len(remotes)}

\* C24: after any sequence of add_remote, remove_remote and rename_remote no
\* two remotes share a name and no two share a URL; an operation that would
\* break this, or that names a remote that doesn't exist, returns an error,
\* and an operation that returns an error leaves the list unchanged.
C24_RemotesUnique ==
    /\ \A i, j \in 1..Len(ix) :
            i # j => ix[i].name # ix[j].name /\ ix[i].url # ix[j].url
    /\ ~last.ok => ix = last.pre
    /\ (last.op = "add" /\ (last.name \in NamesOf(last.pre)
            \/ (UrlParse(last.url).ok
                    /\ UrlParse(last.url).url \in UrlsOf(last.pre))))
            => ~last.ok
    /\ (last.op = "remove" /\ last.name \notin NamesOf(last.pre)) => ~last.ok
    /\ (last.op = "rename" /\ (last.name \notin NamesOf(last.pre)
            \/ last.new_name \in NamesOf(last.pre))) => ~last.ok

\* an add refused for a URL that a remote of another name already has, given
\* in another spelling, while two remotes are configured
C24_Witness ==
    /\ last.op = "add"
    /\ ~last.ok
    /\ Len(ix) = 2
    /\ last.url = "HTTPS://H/a"
    /\ last.name \notin NamesOf(ix)
    /\ "https://h/a" \in UrlsOf(ix)

-----------------------------------------------------------------------------
(* Tree::compare_trees: the changes between two trees and the renames *)

\* the names of the entries of the compared trees, and the blobs they name
ChangeNames == {"a", "b", "d"}
ChangeData == {<<"x">>, <<"y">>}

\* the trees compared: every assignment of blobs to a set of names, the
\* entries in the order of create_tree
ChangeTrees ==
    { LET names == SortNames(DOMAIN f) IN
      [i \in 1..Len(names) |->
          TreeEntry(PERM_FILE, OBJ_TYPE_BLOB, BlobHash(f[names[i]]), names[i])]
      : f \in UNION {[S -> ChangeData] : S \in SUBSET ChangeNames} }

\* from.entries.iter().map(|e| (e.name.as_str(), e)).collect(): the entries
\* of a tree by name
EntriesByName(tree) ==
    [name \in {tree[i].name : i \in 1..Len(tree)} |->
        tree[CHOOSE i \in 1..Len(tree) :
                /\ tree[i].name = name
                /\ \A j \in (i + 1)..Len(tree) : tree[j].name # name]]

\* collect_all_paths(from, to)
CollectAllPaths(from, to) ==
    {from[i].name : i \in 1..Len(from)} \cup {to[i].name : i \in 1..Len(to)}

\* calculate_diff_summary: the text diff of the two blobs, a function of
\* their contents
DiffSummaryOf(store, old_hash, new_hash) ==
    <<"diff", BlobLoad(store, old_hash).data, BlobLoad(store, new_hash).data>>

Added(path, to) ==
    [kind |-> "ADDED", path |-> path, new_hash |-> to.object_hash]

Deleted(path, from) ==
    [kind |-> "DELETED", path |-> path, old_hash |-> from.object_hash]

Modified(store, path, from, to) ==
    [kind |-> "MODIFIED", path |-> path, old_hash |-> from.object_hash,
     new_hash |-> to.object_hash,
     summary |-> IF from.object_type = OBJ_TYPE_BLOB
                        /\ to.object_type = OBJ_TYPE_BLOB
                 THEN DiffSummaryOf(store, from.object_hash, to.object_hash)
                 ELSE <<>>]

Renamed(old_path, new_path, hash) ==
    [kind |-> "RENAMED", old_path |-> old_path, new_path |-> new_path,
     old_hash |-> hash, new_hash |-> hash, summary |-> <<>>]

\* compare_entries with process_entry_pair: the subchanges by path, or the
\* error of a blob that does not load
CompareEntries(store, from, to) ==
    LET from_entries == EntriesByName(from)
        to_entries == EntriesByName(to)
        changed == {p \in CollectAllPaths(from, to) :
                        \/ p \notin DOMAIN from_entries
                        \/ p \notin DOMAIN to_entries
                        \/ from_entries[p].object_hash # to_entries[p].object_hash}
        both == {p \in changed : p \in DOMAIN from_entries /\ p \in DOMAIN to_entries}
    IN
    [ ok |-> \A p \in both :
                (from_entries[p].object_type = OBJ_TYPE_BLOB
                    /\ to_entries[p].object_type = OBJ_TYPE_BLOB)
                => /\ BlobLoad(store, from_entries[p].object_hash).ok
                   /\ BlobLoad(store, to_entries[p].object_hash).ok,
      subchanges |->
        [p \in changed |->
            IF p \notin DOMAIN from_entries THEN Added(p, to_entries[p])
            ELSE IF p \notin DOMAIN to_entries THEN Deleted(p, from_entries[p])
            ELSE Modified(store, p, from_entries[p], to_entries[p])] ]

RECURSIVE CollectDeletedAndAdded(_, _, _, _)
\* collect_deleted_and_added: the deleted and the added paths by hash, the
\* subchanges visited in the order the hash map yields them; a later path
\* replaces an earlier one of the same hash
CollectDeletedAndAdded(subchanges, order, deleted, added) ==
    IF order = <<>> THEN [deleted |-> deleted, added |-> added]
    ELSE LET dt == subchanges[Head(order)] IN
         IF dt.kind = "DELETED"
         THEN CollectDeletedAndAdded(subchanges, Tail(order),
                    FsWrite(deleted, dt.old_hash, dt.path), added)
         ELSE IF dt.kind = "ADDED"
         THEN CollectDeletedAndAdded(subchanges, Tail(order), deleted,
                    FsWrite(added, dt.new_hash, dt.path))
         ELSE CollectDeletedAndAdded(subchanges, Tail(order), deleted, added)

\* find_rename_candidates: (old_path, new_path, hash) for each hash that is
\* deleted and added
FindRenameCandidates(deleted, added) ==
    {<<deleted[hash], added[hash], hash>> :
        hash \in (DOMAIN deleted) \cap (DOMAIN added)}

\* changes.get().remove(&path): get() returns a clone of the map, so the
\* removal leaves the subchanges of the ChangeSet as they are
RemoveFromClone(subchanges, paths) == subchanges

\* detect_renames: for each candidate the two removals and the add_change of
\* the RENAMED entry under its new path; the candidates have different new
\* paths, so the order in which they are applied makes no difference
DetectRenames(subchanges, order) ==
    LET maps == CollectDeletedAndAdded(subchanges, order, EmptyMap, EmptyMap)
        renames == FindRenameCandidates(maps.deleted, maps.added)
        kept == RemoveFromClone(subchanges,
                    {r[1] : r \in renames} \cup {r[2] : r \in renames})
    IN  [p \in (DOMAIN kept) \cup {r[2] : r \in renames} |->
            IF \E r \in renames : r[2] = p
            THEN LET r == CHOOSE r \in renames : r[2] = p IN
                 Renamed(r[1], r[2], r[3])
            ELSE kept[p]]

\* Tree::compare_trees(from, to, objects_dir), the hash map of the changes
\* yielding its keys in the given order
CompareTrees(store, from, to, order) ==
    LET compared == CompareEntries(store, from, to) IN
    IF ~compared.ok THEN [ok |-> FALSE, subchanges |-> EmptyMap]
    ELSE [ok |-> TRUE, from |-> TreeHash(from), to |-> TreeHash(to),
          subchanges |-> DetectRenames(compared.subchanges, order)]

\* the orders in which a hash map can yield the keys of a map
IterationOrders(map) ==
    {order \in [1..Cardinality(DOMAIN map) -> DOMAIN map] :
        \A i, j \in 1..Cardinality(DOMAIN map) : i # j => order[i] # order[j]}

\* two trees and an object store that holds their blobs
InitCompare ==
    /\ ix \in [from : ChangeTrees, to : ChangeTrees]
    /\ objects = BlobSave(BlobSave(EmptyMap, <<"x">>), <<"y">>)
    /\ voxDir = TRUE
    /\ indexFile = NoFile
    /\ head = NoFile
    /\ heads = EmptyMap
    /\ wd = EmptyMap
    /\ now = 0
    /\ used = 0
    /\ last = [op |-> "none", runs |-> <<>>]

\* one run of compare_trees on the two trees
CompareRun ==
    /\ used < 2
    /\ \E order \in IterationOrders(CompareEntries(objects, ix.from, ix.to).subchanges) :
        last' = [op |-> "compare",
                 runs |-> Append(last.runs,
                            CompareTrees(objects, ix.from, ix.to, order))]
    /\ used' = used + 1
    /\ UNCHANGED <<objects, voxDir, indexFile, head, heads, wd, now, ix>>

NextCompare == CompareRun

SpecCompare == InitCompare /\ [][NextCompare]_vars

\* the names only the first tree has, and the names only the second has
OnlyIn(tree, other) ==
    (DOMAIN EntriesByName(tree)) \ (DOMAIN EntriesByName(other))

\* the changes of one run
ChangesOf(run) == {run.subchanges[p] : p \in DOMAIN run.subchanges}

\* C25: when a name present only in `from` and a name present only in `to`
\* carry the same object hash (and no other such name carries it), the
\* ChangeSet holds a single RENAMED entry for the pair, no DELETED entry for
\* the old path and no ADDED entry for the new path.
C25_RenameReplaces ==
    \A n \in 1..Len(last.runs) :
      \A old \in OnlyIn(ix.from, ix.to) : \A new \in OnlyIn(ix.to, ix.from) :
        LET hash == EntriesByName(ix.from)[old].object_hash
            changes == ChangesOf(last.runs[n])
        IN
        (/\ EntriesByName(ix.to)[new].object_hash = hash
         /\ \A o \in OnlyIn(ix.from, ix.to) :
                EntriesByName(ix.from)[o].object_hash = hash => o = old
         /\ \A m \in OnlyIn(ix.to, ix.from) :
                EntriesByName(ix.to)[m].object_hash = hash => m = new)
        => /\ last.runs[n].ok
           /\ Cardinality({c \in changes : c.kind = "RENAMED"
                                /\ c.old_path = old /\ c.new_path = new}) = 1
           /\ ~\E c \in changes : c.kind = "DELETED" /\ c.path = old
           /\ ~\E c \in changes : c.kind = "ADDED" /\ c.path = new

\* C26: two runs of compare_trees on the same pair of trees return the same
\* ChangeSet, also when several deleted paths or several added paths share
\* one object hash; the deleted path of a rename is then the first in
\* lexicographic order among the deleted paths of that hash.
C26_CompareDeterministic ==
    /\ Len(last.runs) = 2 => last.runs[1] = last.runs[2]
    /\ \A n \in 1..Len(last.runs) :
        \A c \in ChangesOf(last.runs[n]) :
            c.kind = "RENAMED" =>
                \A o \in OnlyIn(ix.from, ix.to) :
                    EntriesByName(ix.from)[o].object_hash = c.old_hash
                        => NameIndex(c.old_path) <= NameIndex(o)

-----------------------------------------------------------------------------
(* Packs with Delta entries through serialize and deserialize *)

\* the 20 raw bytes of two object hashes, and their hex text
RawHashes == {[i \in 1..20 |-> "a"], [i \in 1..20 |-> "b"]}
HexEncode(bytes) == ToString(bytes)

\* delta programs: one shorter than 20 bytes, one longer
DeltaPrograms == {<<"p", "q">>, [i \in 1..21 |-> "p"]}

\* the Delta entries and the Base entries of the packs
PackDeltas ==
    {PackDelta(HexEncode(raw), data) : raw \in RawHashes, data \in DeltaPrograms}

PackMixed ==
    PackDeltas \cup {PackBase(data, PACK_BLOB) : data \in {<<>>, <<"x">>, <<"x", "y">>}}

InitPackDelta ==
    /\ objects = EmptyMap
    /\ voxDir = TRUE
    /\ indexFile = NoFile
    /\ head = NoFile
    /\ heads = EmptyMap
    /\ wd = EmptyMap
    /\ now = 0
    /\ used = 0
    /\ ix \in {NewPackfile(objs) : objs \in SeqsUpTo(PackMixed, MaxPackObjects)}
    /\ last = [op |-> "none", ok |-> TRUE, bytes |-> <<>>, objects |-> <<>>]

SpecPackDelta == InitPackDelta /\ [][NextPack]_vars

\* C27: serialize frames a Delta entry as the 20 raw bytes of its base hash
\* followed by the delta program, so that deserialize(serialize(p)) returns
\* every Delta entry with the same base_hash and the same data.
C27_DeltaFraming ==
    /\ last.op = "serialize" => last.ok
    /\ last.op = "deserialize" =>
        /\ last.ok
        /\ Len(last.objects) = Len(ix.objects)
        /\ \A i \in 1..Len(ix.objects) :
            ix.objects[i].kind = "delta" =>
                /\ last.objects[i].kind = "delta"
                /\ last.objects[i].base_hash = ix.objects[i].base_hash
                /\ last.objects[i].data = ix.objects[i].data

-----------------------------------------------------------------------------
(* reconstruct_objects on packs of Base and Delta entries in any order *)

\* the most entries of a pack
MaxPacked == 3

\* the blobs that are Base entries, and a blob that no pack holds
PackedBlobs == {<<72, 101>>, <<72>>}
AbsentBlob == <<108>>

\* a well-formed delta for a base: its first byte, then the literal "!"
DeltaFor(base) ==
    EncodeDelta([base |-> base, ops |-> <<CopyOp(0, 1), InsertOp(<<33>>)>>,
                 bad_base |-> FALSE, bad_result |-> FALSE, short |-> FALSE,
                 wide |-> FALSE])

\* the entries: the Base blobs, a Delta on each of them, a Delta on the
\* absent blob, and a Delta whose header names another base size
PackedEntries ==
    {PackBase(blob, PACK_BLOB) : blob \in PackedBlobs}
    \cup {PackDelta(BlobHash(blob), DeltaFor(blob)) :
            blob \in PackedBlobs \cup {AbsentBlob}}
    \cup {PackDelta(BlobHash(<<72>>), DeltaFor(<<72, 101>>))}

InitReconstruct ==
    /\ objects = EmptyMap
    /\ voxDir = TRUE
    /\ indexFile = NoFile
    /\ head = NoFile
    /\ heads = EmptyMap
    /\ wd = EmptyMap
    /\ now = 0
    /\ used = 0
    /\ ix \in SeqsUpTo(PackedEntries, MaxPacked)
    /\ last = [op |-> "none", ret |-> ReconstructError("")]

\* reconstruct_objects(packfile)
ReconstructRun ==
    /\ used = 0
    /\ used' = 1
    /\ last' = [op |-> "reconstruct_objects", ret |-> ReconstructObjects(ix)]
    /\ UNCHANGED <<objects, voxDir, indexFile, head, heads, wd, now, ix>>

NextReconstruct == ReconstructRun

SpecReconstruct == InitReconstruct /\ [][NextReconstruct]_vars

\* the entries of a pack with every Base before every Delta
BasesFirst(objs) ==
    SelectSeq(objs, LAMBDA o : o.kind = "base")
        \o SelectSeq(objs, LAMBDA o : o.kind = "delta")

\* the hashes of the Base entries of a pack
BaseHashes(objs) ==
    {BlobHash(objs[i].data) : i \in {j \in 1..Len(objs) : objs[j].kind = "base"}}

\* C28: reconstruct_objects resolves every Delta against the Base entries of
\* the whole pack whatever the order of the entries: it succeeds exactly when
\* it succeeds on the same entries with every Base placed first, and returns
\* the same objects; a Delta whose base hash is not among the Base entries
\* makes it fail.
C28_ReconstructOrder ==
    last.op = "reconstruct_objects" =>
        /\ last.ret.ok = ReconstructObjects(BasesFirst(ix)).ok
        /\ last.ret.objects = ReconstructObjects(BasesFirst(ix)).objects
        /\ (\E i \in 1..Len(ix) :
                ix[i].kind = "delta" /\ ix[i].base_hash \notin BaseHashes(ix))
            => ~last.ret.ok

\* a pack whose first entry is a Delta and whose second entry is its Base,
\* reconstructed to the base and the object the delta gives
C28_Witness ==
    /\ last.op = "reconstruct_objects"
    /\ last.ret.ok
    /\ Len(ix) = 2
    /\ ix[1].kind = "delta"
    /\ ix[2].kind = "base"
    /\ ix[1].base_hash = BlobHash(ix[2].data)
    /\ Cardinality(DOMAIN last.ret.objects) = 2

-----------------------------------------------------------------------------
(* apply_delta on programs with a command byte 0 between the instructions *)

\* a base, the instructions before and after the place of the command byte
\* 0, and whether the byte is there
ZeroInputs ==
    [base : DeltaBases \ {BaseText}, before : SeqsUpTo(DeltaInstrs, 1),
     after : SeqsUpTo(DeltaInstrs, 1), zero : BOOLEAN]

\* the bytes of the delta: the two sizes, the instructions, and the byte 0
\* where a command byte stands
EncodeWithZero(input) ==
    EncodeSize(Len(input.base), FALSE)
        \o EncodeSize(OutputLength(input.before \o input.after), FALSE)
        \o EncodeOps(input.before, FALSE)
        \o (IF input.zero THEN <<0>> ELSE <<>>)
        \o EncodeOps(input.after, FALSE)

InitZero ==
    /\ objects = EmptyMap
    /\ voxDir = TRUE
    /\ indexFile = NoFile
    /\ head = NoFile
    /\ heads = EmptyMap
    /\ wd = EmptyMap
    /\ now = 0
    /\ used = 0
    /\ ix \in ZeroInputs
    /\ last = [op |-> "none", ret |-> DeltaError("")]

\* apply_delta(base, delta)
ZeroApply ==
    /\ used = 0
    /\ used' = 1
    /\ last' = [op |-> "apply_delta",
                ret |-> ApplyDelta(ix.base, EncodeWithZero(ix))]
    /\ UNCHANGED <<objects, voxDir, indexFile, head, heads, wd, now, ix>>

NextZero == ZeroApply

SpecZero == InitZero /\ [][NextZero]_vars

\* C29: apply_delta returns an error for a delta whose instruction stream
\* holds a command byte equal to 0.
C29_ZeroCommandRejected ==
    (last.op = "apply_delta" /\ ix.zero) => ~last.ret.ok

-----------------------------------------------------------------------------
(* Delta::read_size on encodings of up to ten groups of 7 bits *)

\* the most bytes with the continuation bit before the last byte
MaxGroups == 10

\* the encodings: n equal bytes with the continuation bit, then a last byte
\* without it, or nothing
VarintInputs ==
    {[i \in 1..n |-> more] \o last_byte :
        n \in 0..MaxGroups, more \in {128, 129, 255},
        last_byte \in {<<>>, <<0>>, <<1>>, <<2>>, <<127>>}}

InitVarint ==
    /\ objects = EmptyMap
    /\ voxDir = TRUE
    /\ indexFile = NoFile
    /\ head = NoFile
    /\ heads = EmptyMap
    /\ wd = EmptyMap
    /\ now = 0
    /\ used = 0
    /\ ix \in VarintInputs
    /\ last = [op |-> "none", ret |-> ReadSize(<<>>, 0)]

\* read_size() at position 0 of the data
VarintRead ==
    /\ used = 0
    /\ used' = 1
    /\ last' = [op |-> "read_size", ret |-> ReadSize(ix, 0)]
    /\ UNCHANGED <<objects, voxDir, indexFile, head, heads, wd, now, ix>>

NextVarint == VarintRead

SpecVarint == InitVarint /\ [][NextVarint]_vars

\* a byte without the continuation bit ends the encoding
Terminated(data) ==
    \E n \in 1..Len(data) : data[n] < 128

\* the number of bytes of the encoding at the start of data
EncodingLength(data) ==
    CHOOSE n \in 1..Len(data) :
        data[n] < 128 /\ \A k \in 1..(n - 1) : data[k] >= 128

\* the 1 bits of the number the encoding stands for: bit i of the k-th
\* byte is bit 7 * (k - 1) + i of the number
EncodedBits(data) ==
    UNION {{7 * (k - 1) + i : i \in {j \in 0..6 : BitSet(data[k], j)}} :
                k \in 1..EncodingLength(data)}

\* C30: for a terminated encoding read_size returns exactly the number the
\* 7-bit groups encode, or an error when that number does not fit in the
\* 64-bit word; it never returns a number that lost high bits to the shift.
C30_ReadSizeExact ==
    (last.op = "read_size" /\ Terminated(ix)) =>
        IF EncodedBits(ix) \subseteq 0..(USIZE_BITS - 1)
        THEN last.ret.ok /\ last.ret.bits = EncodedBits(ix)
        ELSE ~last.ret.ok

-----------------------------------------------------------------------------
(* get_status step by step, while another process removes files: the       *)
(* existence check, the metadata read and the steps of the walk are         *)
(* separate system calls.                                                   *)

\* the most removals during one get_status
MaxRemovals == 1

\* the working directory at the start, and the paths the index may list
RaceFiles ==
    (<<"a">> :> [data |-> <<"x">>, mtime |-> 0])
    @@ (<<"d", "b">> :> [data |-> <<"x">>, mtime |-> 0])
    @@ (<<"d", "c">> :> [data |-> <<"x">>, mtime |-> 0])

RaceIndexed == {<<"a">>, <<"d", "b">>}

\* what another process removes: a file, or a directory with what is below
RaceRemovable == DOMAIN RaceFiles \cup {<<"d">>}

\* the sequences that list every element of a set once
OrdersOf(set) ==
    {seq \in [1..Cardinality(set) -> set] :
        \A i, j \in 1..Cardinality(set) : i # j => seq[i] # seq[j]}

\* the entries read_dir gives for a directory, each with the file type it
\* had when it was listed, without those the filter_entry of the walk drops
Listing(files, dir) ==
    {[path |-> Append(dir, name), is_file |-> IsFile(files, Append(dir, name))] :
        name \in ReadDir(files, dir)}

RaceStart ==
    [pc |-> "load", entries |-> EmptyMap, todo |-> {}, cur |-> <<>>,
     stack |-> <<>>, removed |-> {},
     added |-> {}, modified |-> {}, deleted |-> {}, untracked |-> {}]

RaceNoResult ==
    [ok |-> FALSE, added |-> {}, modified |-> {}, deleted |-> {}, untracked |-> {}]

InitRace ==
    /\ objects = EmptyMap
    /\ voxDir = TRUE
    /\ \E indexed \in SUBSET RaceIndexed :
          indexFile = WriteToFile([q \in indexed |-> NewIndexEntry(RaceFiles, q)])
    /\ head = NoFile
    /\ heads = EmptyMap
    /\ wd = RaceFiles
    /\ now = 0
    /\ used = 0
    /\ ix = RaceStart
    /\ last = [op |-> "none", ret |-> RaceNoResult]

\* get_status returns: Err, or the four lists
RaceReturn(ok) ==
    /\ ix' = [ix EXCEPT !.pc = "done"]
    /\ last' = [op |-> "get_status",
                ret |-> IF ok
                        THEN [ok |-> TRUE, added |-> ix.added,
                              modified |-> ix.modified, deleted |-> ix.deleted,
                              untracked |-> ix.untracked]
                        ELSE RaceNoResult]

\* index.read_from_file(&index_path)?
RaceLoad ==
    /\ ix.pc = "load"
    /\ LET index == LoadIndex(indexFile) IN
        IF index.ok
        THEN /\ ix' = [ix EXCEPT !.pc = "entries", !.entries = index.entries,
                                 !.todo = DOMAIN index.entries]
             /\ UNCHANGED last
        ELSE RaceReturn(FALSE)
    /\ UNCHANGED <<objects, voxDir, indexFile, head, heads, wd, now, used>>

\* the next entry of the index, in the order of the map: full_path.exists()
RaceExists(q) ==
    /\ ix.pc = "entries"
    /\ q \in ix.todo
    /\ ix' = IF ~Exists(wd, Resolve(q))
             THEN [ix EXCEPT !.todo = @ \ {q}, !.deleted = @ \cup {q}]
             ELSE [ix EXCEPT !.todo = @ \ {q}, !.cur = q, !.pc = "metadata"]
    /\ UNCHANGED <<objects, voxDir, indexFile, head, heads, wd, now, used, last>>

\* fs::metadata(&full_path)? and the comparison with the entry
RaceMetadata ==
    /\ ix.pc = "metadata"
    /\ IF ~Exists(wd, Resolve(ix.cur)) THEN RaceReturn(FALSE)
       ELSE /\ ix' = IF MetadataDiffers(wd, Resolve(ix.cur), ix.entries[ix.cur])
                     THEN [ix EXCEPT !.pc = "entries", !.modified = @ \cup {ix.cur}]
                     ELSE [ix EXCEPT !.pc = "entries", !.added = @ \cup {ix.cur}]
            /\ UNCHANGED last
    /\ UNCHANGED <<objects, voxDir, indexFile, head, heads, wd, now, used>>

\* the walk opens the root: its entries, in the order read_dir gives them
RaceWalkRoot ==
    /\ ix.pc = "entries"
    /\ ix.todo = {}
    /\ \E order \in OrdersOf({e \in Listing(wd, <<>>) : Walked(e.path)}) :
          ix' = [ix EXCEPT !.pc = "walk", !.stack = order]
    /\ UNCHANGED <<objects, voxDir, indexFile, head, heads, wd, now, used, last>>

\* the next entry of the walk: a file is classified by the type it was
\* listed with; a directory is opened, and the error of read_dir is the
\* Err that `entry.context(..)?` returns
RaceWalkEntry ==
    /\ ix.pc = "walk"
    /\ ix.stack # <<>>
    /\ LET entry == Head(ix.stack) IN
        IF entry.is_file
        THEN IF entry.path \in DOMAIN ix.entries
             THEN /\ ix' = [ix EXCEPT !.stack = Tail(@)]
                  /\ UNCHANGED last
             ELSE /\ ix' = [ix EXCEPT !.stack = Tail(@),
                                     !.untracked = @ \cup {entry.path}]
                  /\ UNCHANGED last
        ELSE IF \E gone \in ix.removed :
                    gone = entry.path \/ IsPrefix(gone, entry.path)
        THEN RaceReturn(FALSE)
        ELSE /\ \E order \in OrdersOf(Listing(wd, entry.path)) :
                    ix' = [ix EXCEPT !.stack = order \o Tail(@)]
             /\ UNCHANGED last
    /\ UNCHANGED <<objects, voxDir, indexFile, head, heads, wd, now, used>>

\* the walk has no entry left: Ok((added, modified, deleted, untracked))
RaceWalkEnd ==
    /\ ix.pc = "walk"
    /\ ix.stack = <<>>
    /\ RaceReturn(TRUE)
    /\ UNCHANGED <<objects, voxDir, indexFile, head, heads, wd, now, used>>

\* another process removes a file or a directory while get_status runs
RaceRemove(path) ==
    /\ ix.pc \notin {"load", "done"}
    /\ used < MaxRemovals
    /\ Exists(wd, path)
    /\ wd' = [q \in {r \in DOMAIN wd : r # path /\ ~IsPrefix(path, r)} |-> wd[q]]
    /\ ix' = [ix EXCEPT !.removed = @ \cup {path}]
    /\ used' = used + 1
    /\ UNCHANGED <<objects, voxDir, indexFile, head, heads, now, last>>

NextRace ==
    \/ RaceLoad
    \/ \E q \in RaceIndexed : RaceExists(q)
    \/ RaceMetadata
    \/ RaceWalkRoot
    \/ RaceWalkEntry
    \/ RaceWalkEnd
    \/ \E path \in RaceRemovable : RaceRemove(path)

SpecRace == InitRace /\ [][NextRace]_vars

\* C31: get_status returns a result, not an error, when a file or a
\* directory of the working directory is removed while it runs, at whatever
\* point between the existence check, the metadata read and the walk.
C31_StatusTolerates ==
    (last.op = "get_status" /\ ix.removed # {}) => last.ret.ok

-----------------------------------------------------------------------------
(* update_current_branch on its own: HEAD attached or detached, any refs *)

\* the most calls of update_current_branch
MaxAdvances == 2

AdvanceHashes == {"c1", "c2", "c3"}

\* HEAD: attached to a branch, or the hash of a commit
AdvanceHeads ==
    {HeadRef(name) : name \in BranchNames} \cup {<<"c1", LF>>}

\* refs/heads: any of the branches, each naming a commit
AdvanceRefs ==
    UNION {[names -> {<<"c1", LF>>, <<"c2", LF>>}] : names \in SUBSET BranchNames}

InitAdvance ==
    /\ objects = EmptyMap
    /\ voxDir = TRUE
    /\ indexFile = NoFile
    /\ head \in AdvanceHeads
    /\ heads \in AdvanceRefs
    /\ wd = EmptyMap
    /\ now = 0
    /\ used = 0
    /\ ix = <<>>
    /\ last = [op |-> "none", hash |-> "",
               pre |-> [head |-> NoFile, heads |-> EmptyMap]]

\* update_current_branch(commit_hash)
AdvanceUpdate(commit_hash) ==
    /\ used < MaxAdvances
    /\ LET r == UpdateCurrentBranch(head, heads, commit_hash) IN
        /\ head' = r.head
        /\ heads' = r.heads
    /\ last' = [op |-> "update_current_branch", hash |-> commit_hash,
                pre |-> [head |-> head, heads |-> heads]]
    /\ used' = used + 1
    /\ UNCHANGED <<objects, voxDir, indexFile, wd, now, ix>>

NextAdvance == \E commit_hash \in AdvanceHashes : AdvanceUpdate(commit_hash)

SpecAdvance == InitAdvance /\ [][NextAdvance]_vars

\* C32: update_current_branch changes one file: with HEAD attached the ref
\* file of the branch HEAD names, which then holds the hash, while HEAD and
\* every other ref keep their content; with HEAD detached HEAD alone, which
\* then holds the hash, while every ref keeps its content. Nothing outside
\* HEAD and refs/heads changes.
C32_UpdateOneFile ==
    last.op = "update_current_branch" =>
        /\ objects = EmptyMap /\ indexFile = NoFile /\ wd = EmptyMap
        /\ IF IsAttached(last.pre.head)
           THEN /\ head = last.pre.head
                /\ DOMAIN heads = DOMAIN last.pre.heads \cup {HeadBranch(head)}
                /\ heads[HeadBranch(head)] = <<last.hash, LF>>
                /\ \A name \in DOMAIN heads \ {HeadBranch(head)} :
                        heads[name] = last.pre.heads[name]
           ELSE /\ head = <<last.hash, LF>>
                /\ heads = last.pre.heads

\* HEAD attached to main and advanced to c3 while dev exists
C32_Witness ==
    /\ last.op = "update_current_branch"
    /\ last.pre.head = HeadRef("main")
    /\ last.hash = "c3"
    /\ "dev" \in DOMAIN heads
    /\ heads["main"] = <<"c3", LF>>
    /\ heads["main"] # heads["dev"]

-----------------------------------------------------------------------------
(* The apply_delta of pack.rs, which Packfile::apply_deltas calls, next to  *)
(* the apply_delta of delta.rs. A result is Ok with the bytes, Err, or the  *)
(* panic of an index out of range.                                          *)

PackOk(data) == [kind |-> "ok", data |-> data]
PackErr == [kind |-> "err", data |-> <<>>]
PackPanic == [kind |-> "panic", data |-> <<>>]

\* (byte as u64) << shift, as the set of the bits that are 1
ByteBits(byte, shift) == {shift + i : i \in {j \in 0..7 : BitSet(byte, j)}}

RECURSIVE ReadSizeEncoding(_, _, _, _, _)
\* read_size_encoding of pack.rs; a shift by 64 or more panics in a build
\* with overflow checks and shifts by shift % 64 in one without
ReadSizeEncoding(data, position, size, shift, checks) ==
    IF position >= Len(data) THEN [kind |-> "err", bits |-> {}, position |-> position]
    ELSE IF shift >= USIZE_BITS /\ checks
    THEN [kind |-> "panic", bits |-> {}, position |-> position]
    ELSE LET byte == data[position + 1]
             next == size \cup ShiftedBits(byte, shift % USIZE_BITS)
         IN  IF byte < 128 THEN [kind |-> "ok", bits |-> next, position |-> position + 1]
             ELSE ReadSizeEncoding(data, position + 1, next, shift + 7, checks)

RECURSIVE PackReadFlagged(_, _, _, _, _, _)
\* one of the two loops of the COPY arm: for i in from..to, the byte that
\* `cmd & (0x80 >> i)` announces, shifted by (i - from) * 8
PackReadFlagged(data, position, cmd, i, to, from) ==
    IF i >= to THEN [ok |-> TRUE, bits |-> {}, position |-> position]
    ELSE IF ~BitSet(cmd, 7 - i) THEN PackReadFlagged(data, position, cmd, i + 1, to, from)
    ELSE IF position >= Len(data) THEN [ok |-> FALSE, bits |-> {}, position |-> position]
    ELSE LET rest == PackReadFlagged(data, position + 1, cmd, i + 1, to, from) IN
         [ok |-> rest.ok,
          bits |-> ByteBits(data[position + 1], (i - from) * 8) \cup rest.bits,
          position |-> rest.position]

RECURSIVE PackApplyLoop(_, _, _, _)
\* the while loop of pack.rs's apply_delta
PackApplyLoop(base, delta, position, result) ==
    IF position >= Len(delta) THEN PackOk(result)
    ELSE LET cmd == delta[position + 1] IN
         IF cmd >= 128
         THEN LET offset == PackReadFlagged(delta, position + 1, cmd, 0, 4, 0)
                  length == PackReadFlagged(delta, offset.position, cmd, 4, 7, 4)
                  start == WordValue(offset.bits)
                  end == start + (IF length.bits = {} THEN 65536
                                  ELSE WordValue(length.bits))
              IN  IF ~offset.ok \/ ~length.ok THEN PackErr
                  ELSE IF end > Len(base) THEN PackPanic
                  ELSE PackApplyLoop(base, delta, length.position,
                                     result \o Slice(base, start, end))
         ELSE IF position + 1 + cmd > Len(delta) THEN PackErr
         ELSE PackApplyLoop(base, delta, position + 1 + cmd,
                            result \o SubSeq(delta, position + 2, position + 1 + cmd))

\* apply_delta(base, delta) of pack.rs
PackApplyDelta(base, delta, checks) ==
    LET base_size == ReadSizeEncoding(delta, 0, {}, 0, checks)
        result_size == ReadSizeEncoding(delta, base_size.position, {}, 0, checks)
        applied == PackApplyLoop(base, delta, result_size.position, <<>>)
    IN  IF base_size.kind # "ok" THEN [kind |-> base_size.kind, data |-> <<>>]
        ELSE IF result_size.kind # "ok" THEN [kind |-> result_size.kind, data |-> <<>>]
        ELSE IF WordValue(base_size.bits) # Len(base) THEN PackErr
        ELSE IF applied.kind # "ok" THEN applied
        ELSE IF Len(applied.data) # WordValue(result_size.bits) THEN PackErr
        ELSE applied

InitAppliers ==
    /\ objects = EmptyMap
    /\ voxDir = TRUE
    /\ indexFile = NoFile
    /\ head = NoFile
    /\ heads = EmptyMap
    /\ wd = EmptyMap
    /\ now = 0
    /\ used = 0
    /\ ix \in DeltaInputs
    /\ last = [op |-> "none", delta_rs |-> DeltaError(""), pack_rs |-> PackErr]

\* both appliers on the same base and delta, in a build with or without
\* overflow checks
AppliersRun(checks) ==
    /\ used = 0
    /\ used' = 1
    /\ last' = [op |-> "apply_delta",
                delta_rs |-> ApplyDelta(ix.base, EncodeDelta(ix)),
                pack_rs |-> PackApplyDelta(ix.base, EncodeDelta(ix), checks)]
    /\ UNCHANGED <<objects, voxDir, indexFile, head, heads, wd, now, ix>>

NextAppliers == \E checks \in BOOLEAN : AppliersRun(checks)

SpecAppliers == InitAppliers /\ [][NextAppliers]_vars

\* C33: for the same base and delta the two appliers return the same bytes
\* or both return an error, and neither panics.
C33_AppliersAgree ==
    last.op = "apply_delta" =>
        /\ last.pack_rs.kind # "panic"
        /\ last.delta_rs.ok = (last.pack_rs.kind = "ok")
        /\ last.delta_rs.ok => last.delta_rs.data = last.pack_rs.data

-----------------------------------------------------------------------------
(* The kind of the object that reconstruct_objects makes of a Delta entry,  *)
(* for deltas whose result is the payload of a commit, tree, tag or blob.   *)
(* A payload is written as its words; LeadingBytes gives its first bytes.   *)

\* the bytes of the first word of a payload, which a space, a NUL or the
\* end of the data follows
LeadingBytes(payload) ==
    IF payload = <<>> THEN <<>>
    ELSE CASE payload[1] = "tree" -> <<116, 114, 101, 101>>
           [] payload[1] = "commit" -> <<99, 111, 109, 109, 105, 116>>
           [] payload[1] = "tag" -> <<116, 97, 103>>
           [] payload[1] = "object" -> <<111, 98, 106, 101, 99, 116>>
           [] payload[1] = PERM_FILE -> <<49, 48, 48, 54, 52, 52>>
           [] payload[1] = PERM_DIR -> <<52, 48, 48, 48, 48>>
           [] OTHER -> <<120>>

\* Packfile::parse_object with its four arms: the kind of the Object, or an
\* error of the parser of the arm; tree_parses is what Tree::parse, which
\* the source does not hold, says of the data
ParseObjectOf(obj_type, data, tree_parses) ==
    IF obj_type = PACK_COMMIT
    THEN [ok |-> CommitParse(data).ok, type |-> OBJ_TYPE_COMMIT]
    ELSE IF obj_type = PACK_TREE
    THEN [ok |-> tree_parses, type |-> OBJ_TYPE_TREE]
    ELSE IF obj_type = PACK_TAG
    THEN [ok |-> TagParse(data), type |-> OBJ_TYPE_TAG]
    ELSE IF obj_type = PACK_BLOB
    THEN [ok |-> TRUE, type |-> OBJ_TYPE_BLOB]
    ELSE [ok |-> FALSE, type |-> ""]

\* the body of the second loop of reconstruct_objects for one Delta entry
\* whose base is there
ReconstructKind(base_data, delta, tree_parses) ==
    LET header == ParseHeader(delta)
        reconstructed == ApplyDelta(base_data, delta)
        parsed == ParseObjectOf(DetectType(LeadingBytes(reconstructed.data)),
                                reconstructed.data, tree_parses)
    IN  IF ~header.ok \/ SizeMismatch(Len(base_data), header.base_size)
            \/ ~reconstructed.ok \/ ~parsed.ok
        THEN [ok |-> FALSE, type |-> ""]
        ELSE [ok |-> TRUE, type |-> parsed.type]

\* the payloads with their kinds: commits, tags and trees as serialize
\* writes them, and blobs with any first word
KindInputs ==
    [type : {OBJ_TYPE_COMMIT}, payload : {CommitSerialize(c) : c \in TextCommits}]
    \cup [type : {OBJ_TYPE_TAG}, payload : {TagSerialize(t) : t \in StoreTags}]
    \cup [type : {OBJ_TYPE_TREE},
          payload : {TreeSerialize(t) : t \in StoreTrees \ {<<>>}}]
    \cup [type : {OBJ_TYPE_BLOB},
          payload : {<<first, second>> : first \in {"x", "commit", "tree", "tag"},
                                         second \in {"log", "view"}}]

\* the delta on the base "x" that inserts the payload
KindDelta(payload) ==
    EncodeDelta([base |-> <<"x">>, ops |-> <<InsertOp(payload)>>,
                 bad_base |-> FALSE, bad_result |-> FALSE, short |-> FALSE,
                 wide |-> FALSE])

InitKind ==
    /\ objects = EmptyMap
    /\ voxDir = TRUE
    /\ indexFile = NoFile
    /\ head = NoFile
    /\ heads = EmptyMap
    /\ wd = EmptyMap
    /\ now = 0
    /\ used = 0
    /\ ix \in KindInputs
    /\ last = [op |-> "none", ret |-> [ok |-> FALSE, type |-> ""]]

\* reconstruct_objects of a Delta entry whose result is the payload
KindReconstruct(tree_parses) ==
    /\ used = 0
    /\ used' = 1
    /\ last' = [op |-> "reconstruct_objects",
                ret |-> ReconstructKind(<<"x">>, KindDelta(ix.payload), tree_parses)]
    /\ UNCHANGED <<objects, voxDir, indexFile, head, heads, wd, now, ix>>

NextKind == \E tree_parses \in BOOLEAN : KindReconstruct(tree_parses)

SpecKind == InitKind /\ [][NextKind]_vars

\* C34: reconstructing a Delta entry whose result is the payload of a
\* commit, tree, tag or blob gives an object of that kind.
C34_KindPreserved ==
    last.op = "reconstruct_objects" =>
        last.ret.ok /\ last.ret.type = ix.type

-----------------------------------------------------------------------------
(* checkout and status in a repository whose one file is staged and        *)
(* committed                                                               *)

\* `vox init`, `vox add a` and `vox commit -m m` at time 0
StagedCommit ==
    LET added == AddCommand(TRUE, BranchFiles, EmptyMap,
                            InitCommand(EmptyMap).indexFile, <<"a">>)
    IN  CommitCommand(TRUE, BranchFiles, added.objects, added.indexFile,
                      InitCommand(EmptyMap).head, EmptyMap, 0, "m",
                      DefaultAuthor, "none")

InitReturn ==
    /\ objects = StagedCommit.objects
    /\ voxDir = TRUE
    /\ indexFile = StagedCommit.indexFile
    /\ head = StagedCommit.head
    /\ heads = StagedCommit.heads
    /\ wd = BranchFiles
    /\ now = 0
    /\ used = 0
    /\ ix = <<>>
    /\ last = NoCmd

NextReturn ==
    \/ Tick
    \/ Status
    \/ \E name \in BranchNames : Branch(name)
    \/ \E target \in BranchNames : \E force \in BOOLEAN :
            Checkout(target, force, {})

SpecReturn == InitReturn /\ [][NextReturn]_vars

\* C35: after a checkout that returned Ok and that started when status
\* listed no modified, deleted or untracked file, status lists no modified
\* and no deleted file.
C35_CheckoutKeepsClean ==
    [][(last'.op = "checkout" /\ last'.ok /\ Clean(wd, indexFile)) =>
            ~HasTrackedChanges(GetStatus(wd', indexFile'))]_vars

-----------------------------------------------------------------------------
(* The index commands: add, status and commit open .vox/index (indexFile),  *)
(* rm and ls-files open .vcs/index (ix.vcs).                                *)

\* the most commands run
MaxStaging == 3

\* the working directory
StagingFiles ==
    (<<"a">> :> [data |-> <<"x">>, mtime |-> 0])
    @@ (<<"d", "b">> :> [data |-> <<"x">>, mtime |-> 0])

\* the arguments of rm: a file, the same with a leading "./", a directory
RmArgs == {<<"a">>, <<".", "a">>, <<"d">>}

\* ls_files_command: the paths printed
LsFilesCommand(vcs) ==
    IF vcs = NoFile THEN [ok |-> TRUE, listed |-> {}]
    ELSE [ok |-> ReadFromFile(vcs).ok,
          listed |-> DOMAIN ReadFromFile(vcs).entries]

\* remove_single_file(index, path, cached, forced): the count it returns
RemoveSingleFile(entries, files, path, cached, forced) ==
    LET relative_path == StripDotSlash(path) IN
    IF GetEntry(entries, relative_path) = <<>>
    THEN [count |-> 0, entries |-> entries, files |-> files]
    ELSE IF ~cached /\ ~forced /\ ~Exists(files, relative_path)
    THEN [count |-> 0, entries |-> entries, files |-> files]
    ELSE [count |-> 1, entries |-> RemoveEntry(entries, relative_path),
          files |-> IF forced /\ IsFile(files, relative_path)
                    THEN [q \in (DOMAIN files) \ {relative_path} |-> files[q]]
                    ELSE files]

RECURSIVE RemoveEach(_, _, _, _, _)
\* remove_single_file for each of the paths in turn
RemoveEach(entries, files, paths, cached, forced) ==
    IF paths = <<>> THEN [count |-> 0, entries |-> entries, files |-> files]
    ELSE LET one == RemoveSingleFile(entries, files, Head(paths), cached, forced)
             rest == RemoveEach(one.entries, one.files, Tail(paths), cached, forced)
         IN  [rest EXCEPT !.count = @ + one.count]

\* rm_command(&[path], cached, forced): for a directory the files right
\* below it, which pass the filter of the walk
RmCommand(files, vcs, path, cached, forced) ==
    LET index == ReadFromFile(vcs)
        below == {Append(path, name) :
                    name \in {n \in ReadDir(files, path) :
                                IsFile(files, Append(path, n))}}
        paths == IF IsDir(files, path) THEN SortedPaths([q \in below |-> q])
                 ELSE <<path>>
        removed == RemoveEach(index.entries, files, paths, cached, forced)
    IN  IF vcs = NoFile THEN [ok |-> TRUE, vcs |-> vcs, files |-> files]
        ELSE IF ~index.ok THEN [ok |-> FALSE, vcs |-> vcs, files |-> files]
        ELSE [ok |-> TRUE,
              vcs |-> IF removed.count > 0 THEN WriteToFile(removed.entries)
                      ELSE vcs,
              files |-> removed.files]

\* after `vox init`; a file .vcs/index is there only when the user put it
\* there, here as a copy of an index that lists a
InitStaging ==
    /\ objects = EmptyMap
    /\ voxDir = TRUE
    /\ indexFile = InitCommand(EmptyMap).indexFile
    /\ head = InitCommand(EmptyMap).head
    /\ heads = EmptyMap
    /\ wd = StagingFiles
    /\ now = 0
    /\ used = 0
    /\ ix \in {[vcs |-> NoFile],
               [vcs |-> WriteToFile(<<"a">> :> NewIndexEntry(StagingFiles, <<"a">>))]}
    /\ last = [op |-> "none", ok |-> TRUE, path |-> <<>>, cached |-> FALSE,
               listed |-> {}, staged |-> {}]

\* the paths of .vox/index, which status and commit read
Staged(file) == DOMAIN LoadIndex(file).entries

\* vox add <path>
StagingAdd(path) ==
    /\ used < MaxStaging
    /\ LET r == AddCommand(voxDir, wd, objects, indexFile, path) IN
        /\ objects' = r.objects
        /\ indexFile' = r.indexFile
        /\ last' = [op |-> "add", ok |-> r.ok, path |-> path, cached |-> FALSE,
                    listed |-> {}, staged |-> Staged(indexFile)]
    /\ used' = used + 1
    /\ UNCHANGED <<voxDir, head, heads, wd, now, ix>>

\* vox rm [--cached] [-f] <path>
StagingRm(path, cached, forced) ==
    /\ used < MaxStaging
    /\ LET r == RmCommand(wd, ix.vcs, path, cached, forced) IN
        /\ ix' = [vcs |-> r.vcs]
        /\ wd' = r.files
        /\ last' = [op |-> "rm", ok |-> r.ok, path |-> path, cached |-> cached,
                    listed |-> {}, staged |-> Staged(indexFile)]
    /\ used' = used + 1
    /\ UNCHANGED <<objects, voxDir, indexFile, head, heads, now>>

\* vox ls-files
StagingLs ==
    /\ used < MaxStaging
    /\ last' = [op |-> "ls-files", ok |-> LsFilesCommand(ix.vcs).ok,
                path |-> <<>>, cached |-> FALSE,
                listed |-> LsFilesCommand(ix.vcs).listed,
                staged |-> Staged(indexFile)]
    /\ used' = used + 1
    /\ UNCHANGED <<objects, voxDir, indexFile, head, heads, wd, now, ix>>

NextStaging ==
    \/ \E path \in DOMAIN StagingFiles : StagingAdd(path)
    \/ \E path \in RmArgs : \E cached, forced \in BOOLEAN :
            StagingRm(path, cached, forced)
    \/ StagingLs

SpecStaging == InitStaging /\ [][NextStaging]_vars

\* C36: ls-files lists the paths that add staged in the index status and
\* commit read, and rm --cached of a staged file removes it from that index.
C36_OneIndex ==
    /\ last.op = "ls-files" => last.listed = Staged(indexFile)
    /\ (last.op = "rm" /\ last.cached /\ last.ok
            /\ StripDotSlash(last.path) \in last.staged)
        => StripDotSlash(last.path) \notin Staged(indexFile)

-----------------------------------------------------------------------------
\* C37: init in a repository that is already initialized leaves HEAD, the
\* index and every ref as they were.
C37_InitKeepsRepository ==
    (last.op = "init" /\ last.pre.repo) =>
        /\ head = last.pre.head
        /\ indexFile = last.pre.indexFile
        /\ heads = last.pre.heads


-----------------------------------------------------------------------------
(* CloneCommand::try_execute: the test of the target, the steps of         *)
(* execute and the cleanup that follows a step that failed                 *)

\* the files a target directory can hold before the clone
TargetFiles == {"notes.txt", "src/lib.rs", "data.bin"}

\* the calls of execute, in their order
ExecuteSteps ==
    <<"create_dir_all", "init_command", "VoxTransport::new", "fetch_refs",
      "fetch_packfile", "reconstruct_objects", "save_objects", "write_refs",
      "checkout_workdir">>

\* what a call of execute that returned Ok created below the target:
\* init_command works on the relative path .vox, which is below the target
\* only when the target is the current directory
StepWrites(step, in_cwd) ==
    CASE step = "init_command" -> IF in_cwd THEN {".vox"} ELSE {}
      [] step = "save_objects" -> {"objects"}
      [] step = "write_refs" -> {"refs/remotes/origin/main", "HEAD"}
      [] step = "checkout_workdir" -> {"README"}
      [] OTHER -> {}

\* Repository::is_initialized: path.join(".vox").exists()
IsInitialized(target) == ".vox" \in target

\* execute from its call number k on, where the call number failing returns
\* Err (0: none does)
RECURSIVE ExecuteFrom(_, _, _, _)
ExecuteFrom(k, target, in_cwd, failing) ==
    IF k > Len(ExecuteSteps) THEN [ok |-> TRUE, target |-> target]
    ELSE IF k = failing THEN [ok |-> FALSE, target |-> target]
    ELSE ExecuteFrom(k + 1, target \cup StepWrites(ExecuteSteps[k], in_cwd),
                     in_cwd, failing)

\* CloneCommand::execute
Execute(target, in_cwd, failing) == ExecuteFrom(1, target, in_cwd, failing)

\* cleanup_on_error: tokio::fs::remove_dir_all(&self.target)
CleanupOnError(target) == {}

InitTryExecute ==
    /\ objects = EmptyMap
    /\ voxDir = FALSE
    /\ indexFile = NoFile
    /\ head = NoFile
    /\ heads = EmptyMap
    /\ wd = EmptyMap
    /\ now = 0
    /\ used = 0
    /\ ix \in [target : SUBSET (TargetFiles \cup {".vox"}),
               exists : BOOLEAN, in_cwd : BOOLEAN, cwd_vox : {FALSE}]
    /\ (ix.target # {} \/ ix.in_cwd) => ix.exists
    /\ last = [op |-> "none", ok |-> TRUE, failing |-> 0, pre |-> ix]

\* CloneCommand::try_execute, with the call of execute that fails
TryExecute(failing) ==
    /\ used = 0
    /\ used' = 1
    \* create_dir_all of a directory that exists returns Ok
    /\ (failing = 1) => ~ix.exists
    /\ IF IsInitialized(ix.target)
       THEN /\ failing = 0
            /\ ix' = ix
            /\ last' = [op |-> "try_execute", ok |-> FALSE, failing |-> 0,
                        pre |-> ix]
       ELSE LET result == Execute(ix.target, ix.in_cwd, failing)
                inited == failing = 0 \/ failing > 2
            IN  /\ ix' = [target |-> IF result.ok THEN result.target
                                     ELSE CleanupOnError(result.target),
                          exists |-> result.ok,
                          in_cwd |-> ix.in_cwd,
                          cwd_vox |-> inited /\ ~ix.in_cwd]
                /\ last' = [op |-> "try_execute", ok |-> result.ok,
                            failing |-> failing, pre |-> ix]
    /\ UNCHANGED <<objects, voxDir, indexFile, head, heads, wd, now>>

NextTryExecute == \E failing \in 0..Len(ExecuteSteps) : TryExecute(failing)

SpecTryExecute == InitTryExecute /\ [][NextTryExecute]_vars

\* C38: a clone that returns Err leaves every file that was in the target
\* directory before it in place, and a clone into a target that holds a
\* repository changes nothing.
C38_FailedCloneKeepsFiles ==
    (last.op = "try_execute" /\ ~last.ok) =>
        /\ last.pre.target \subseteq ix.target
        /\ IsInitialized(last.pre.target) => ix = last.pre


-----------------------------------------------------------------------------
(* GitProtocolHandler::fetch_pack: the response loop over the reads of the *)
(* server's byte stream                                                    *)

MaxPackets == 2
MaxReads == 2

\* what a server sends: a sideband packet with its length first, a packet
\* with its band number first, "NAK\n", "ACK h\n" and raw pack bytes
ServerPackets ==
    { <<0, 0, 0, 6, 1, 80>>,
      <<1, 0, 0, 6, 80>>,
      <<78, 65, 75, 10>>,
      <<65, 67, 75, 32, 104, 10>>,
      <<80, 65, 67, 75, 7>> }

\* the byte streams of at most MaxPackets packets
ServerStreams ==
    UNION {{Flatten(packets) : packets \in [1..n -> ServerPackets]} :
              n \in 0..MaxPackets}

\* the sets of at most n places where a stream of k + 1 bytes is cut
RECURSIVE CutSets(_, _)
CutSets(k, n) ==
    IF n = 0 THEN {{}}
    ELSE CutSets(k, n - 1)
         \cup UNION {{cuts \cup {c} : c \in 1..k} : cuts \in CutSets(k, n - 1)}

\* the reads that deliver stream when it is cut after the places of cuts:
\* every stream.read returns at least one byte until the stream ends
RECURSIVE SplitAt(_, _)
SplitAt(stream, cuts) ==
    IF stream = <<>> THEN <<>>
    ELSE IF cuts = {} THEN <<stream>>
    ELSE LET c == CHOOSE x \in cuts : \A y \in cuts : x <= y
         IN  <<SubSeq(stream, 1, c)>>
             \o SplitAt(SubSeq(stream, c + 1, Len(stream)),
                        {x - c : x \in cuts \ {c}})

\* the ways a stream arrives in at most MaxReads reads
Splits(stream) ==
    {SplitAt(stream, cuts) : cuts \in CutSets(Len(stream) - 1, MaxReads - 1)}

\* PackfileResponse { data, ack_status, seen_acks }
FetchOk(data, ack_status, seen_acks) ==
    [kind |-> "Ok", data |-> data, ack_status |-> ack_status,
     seen_acks |-> seen_acks]

\* fetch_pack that returned Err ("Err"), panicked on a slice out of range
\* ("Panic"), or loops without end ("Hang")
FetchStop(kind) ==
    [kind |-> kind, data |-> <<>>, ack_status |-> <<"None">>,
     seen_acks |-> {}]

\* parse_sideband_len: the length, the four bytes consumed by the caller
ParseSidebandLen(chunk) ==
    IF Len(chunk) < 4 THEN [ok |-> FALSE, len |-> 0]
    ELSE LET len == FromBeBytes(SubSeq(chunk, 1, 4))
         IN  IF len < 4 \/ len > Len(chunk) THEN [ok |-> FALSE, len |-> 0]
             ELSE [ok |-> TRUE, len |-> len]

IsWhitespace(byte) == byte \in {9, 10, 11, 12, 13, 32}

\* str::split_whitespace
RECURSIVE SplitWhitespace(_)
SplitWhitespace(bytes) ==
    IF bytes = <<>> THEN <<>>
    ELSE IF IsWhitespace(Head(bytes)) THEN SplitWhitespace(Tail(bytes))
    ELSE LET n == CHOOSE k \in 1..Len(bytes) :
                      /\ \A i \in 1..k : ~IsWhitespace(bytes[i])
                      /\ k = Len(bytes) \/ IsWhitespace(bytes[k + 1])
         IN  <<SubSeq(bytes, 1, n)>>
             \o SplitWhitespace(SubSeq(bytes, n + 1, Len(bytes)))

\* chunk[..].split(|&b| b == b'\n').next()
FirstLine(bytes) ==
    IF \E i \in 1..Len(bytes) : bytes[i] = 10
    THEN SubSeq(bytes, 1,
                (CHOOSE i \in 1..Len(bytes) :
                    bytes[i] = 10 /\ \A j \in 1..(i - 1) : bytes[j] # 10) - 1)
    ELSE bytes

\* parse_ack; String::from_utf8 refuses a line with a byte that is not ASCII
ParseAck(chunk) ==
    IF Len(chunk) < 3 THEN [ok |-> FALSE, status |-> <<"None">>]
    ELSE IF chunk[1] = 65
    THEN LET line == FirstLine(chunk)
             words == SplitWhitespace(line)
         IN  IF \E i \in 1..Len(line) : line[i] > 127
             THEN [ok |-> FALSE, status |-> <<"None">>]
             ELSE IF Len(words) < 2 THEN [ok |-> FALSE, status |-> <<"None">>]
             ELSE [ok |-> TRUE, status |-> <<"Ack", words[2]>>]
    ELSE IF chunk[1] = 78 THEN [ok |-> TRUE, status |-> <<"Nak">>]
    ELSE [ok |-> FALSE, status |-> <<"None">>]

\* the while loop of fetch_pack over the packets of one read
RECURSIVE ChunkLoop(_, _)
ChunkLoop(chunk, acc) ==
    IF chunk = <<>> THEN acc
    ELSE LET first == chunk[1]
             parsed == ParseSidebandLen(chunk)
             rest == SubSeq(chunk, 5, Len(chunk))
         IN  CASE first = 1 ->
                    IF ~parsed.ok THEN FetchStop("Err")
                    ELSE IF parsed.len - 1 > Len(rest) THEN FetchStop("Panic")
                    ELSE ChunkLoop(SubSeq(rest, parsed.len, Len(rest)),
                                   [acc EXCEPT !.data =
                                       @ \o SubSeq(rest, 2, parsed.len - 1)])
               [] first = 2 ->
                    IF ~parsed.ok THEN FetchStop("Err")
                    ELSE IF parsed.len - 1 > Len(rest) THEN FetchStop("Panic")
                    ELSE ChunkLoop(SubSeq(rest, parsed.len, Len(rest)), acc)
               [] first = 3 ->
                    IF ~parsed.ok THEN FetchStop("Err")
                    ELSE IF parsed.len - 1 > Len(rest) THEN FetchStop("Panic")
                    ELSE FetchStop("Err")
               [] first \in {65, 78} ->
                    \* parse_ack consumes nothing: after an Ok the loop meets
                    \* the same chunk again
                    IF ParseAck(chunk).ok THEN FetchStop("Hang")
                    ELSE FetchStop("Err")
               [] first = 80 ->
                    IF Len(chunk) < 4 THEN FetchStop("Panic")
                    ELSE IF SubSeq(chunk, 1, 4) = <<80, 65, 67, 75>>
                    THEN [acc EXCEPT !.data = @ \o chunk]
                    ELSE FetchStop("Err")
               [] OTHER -> FetchStop("Err")

\* the loop of fetch_pack over the reads; the read after the last returns 0
RECURSIVE ReadLoop(_, _)
ReadLoop(reads, acc) ==
    IF reads = <<>> THEN acc
    ELSE LET response == ChunkLoop(Head(reads), acc)
         IN  IF response.kind # "Ok" THEN response
             ELSE ReadLoop(Tail(reads), response)

FetchPack(reads) == ReadLoop(reads, FetchOk(<<>>, <<"None">>, {}))

InitFetch ==
    /\ objects = EmptyMap
    /\ voxDir = FALSE
    /\ indexFile = NoFile
    /\ head = NoFile
    /\ heads = EmptyMap
    /\ wd = EmptyMap
    /\ now = 0
    /\ used = 0
    /\ \E stream \in ServerStreams :
          ix \in [stream : {stream}, reads : Splits(stream)]
    /\ last = [op |-> "none", response |-> FetchStop("none")]

\* fetch_pack on a connection that delivers ix.stream in the reads ix.reads
FetchPackRun ==
    /\ used = 0
    /\ used' = 1
    /\ last' = [op |-> "fetch_pack", response |-> FetchPack(ix.reads)]
    /\ UNCHANGED <<objects, voxDir, indexFile, head, heads, wd, now, ix>>

NextFetch == FetchPackRun

SpecFetch == InitFetch /\ [][NextFetch]_vars

\* C39: for one byte stream, fetch_pack gives with every split into reads
\* the response it gives when the stream arrives in a single read.
C39_SplitIndependent ==
    last.op = "fetch_pack" => last.response = FetchPack(<<ix.stream>>)

=============================================================================
